---- MODULE Spec2Model ----
(***************************************************************************)
(* Bar-by-bar back-test simulation of the trade-bot repository.            *)
(*                                                                         *)
(* Two ledgers live in the repository and both are modelled:               *)
(*   - core/broker.py Broker, driven by core/backtest_engine.py            *)
(*     BacktestEngine.run and reported through core/portfolio.py;          *)
(*   - backtest_engine.py BacktestBroker, which is its own driver.         *)
(* `engine` says which of them a behaviour runs ("core" or "legacy");      *)
(* "client" is the Broker alone, its public methods called in any order.   *)
(*                                                                         *)
(* Units.  Prices are whole pips (pip_size is the unit), volumes are       *)
(* hundredths of a lot, money of the core ledger is cents, so that         *)
(* pnl = pips * pip_value_per_lot * volume is an integer.  The legacy      *)
(* ledger adds raw price differences to its balance (no volume), so its    *)
(* balance is counted in pips.                                             *)
(*                                                                         *)
(* Collaborators the repository's files do not hold.  Broker reads         *)
(* risk_manager.min_lot, which core/risk_manager.py does not define: MinLot *)
(* is the 0.01 lot minimum the specification gives.  BacktestEngine.run    *)
(* calls data_handler.stream_bars() and get_last_bar(), which              *)
(* core/data_handler.py does not define: the bars are streamed in order    *)
(* and GetLastBar is the last bar streamed.  The strategy is any strategy: *)
(* on a bar it asks for nothing or for one order.                          *)
(***************************************************************************)
EXTENDS Integers, Sequences, FiniteSets, TLC

\* ------------------------------------------------------------------ bounds
MaxBars == 3
MaxPrice == 4
MaxCalls == 4
MaxRiskSteps == 8
MaxEmaBars == 4
MaxReported == 2
MaxBotBars == 4
MaxIterations == 7
MaxLiveCandles == 4
FrameRows == 3
MaxChochCandles == 3
MaxChochSetups == 2

\* ------------------------------------------------------- program constants
NBarsForEntry == 1
RiskPerTradeUsd == 100
PipValuePerLot == 10
InitialBalanceUsd == 10000
PipsPerPriceUnit == 100000
MinLot == 1
NoValue == 0

\* The parameters runner.py gives the EMA pullback strategy; the two ATR
\* multipliers (0.8 and 0.5) are in tenths.
RiskToReward == 2
ImpulseAtrMultiplierTenths == 8
SlAtrMultiplierTenths == 5

\* Config of live_ema_pullback_bot.py: KC_MULTIPLIER, PULLBACK_STABILITY_SECONDS
KcMultiplier == 2
PullbackStabilitySeconds == 5
\* BotConfig of keltner_pullback_bot.py
LiveKcMultiplierTenths == 15
LiveRiskUsd == 10
MinPullbackDistance == 1
\* Configuration of choch_bot_v2.py
ChochRiskUsd == 10
NumScaleInOrders == 3
ScaleInZoneAtrMultiplierTenths == 5
PullbackDepthAtrMultiplierTenths == 15

\* The rows of the strategy's window that keep their indicators after
\* dropna(): N_BARS_FOR_ENTRY = ema_slow + 5 rows, the first ema_slow - 1 of
\* them without a slow EMA.
WindowRows == 6

\* The symbol's volume limits the live bots read from the terminal
\* (symbol_info.volume_min, volume_step, volume_max), in hundredths of a lot.
VolumeMin == 1
VolumeStep == 1
VolumeMax == 50

Prices == 1..MaxPrice

\* No order handed over yet.
NoOrder == [type |-> "None"]
NoConfig == [class |-> "None"]
NoBot == [class |-> "None"]
OrderTypes == {"BUY", "SELL"}

NoBar == [name |-> NoValue, open |-> NoValue, low |-> NoValue,
          high |-> NoValue, close |-> NoValue]

\* What a strategy may ask for on a bar whose reference price is `entry`: the
\* stop on one side of the entry and the target on the other (every strategy of
\* the repository derives the target from the stop distance), or a stop at the
\* entry itself (a zero stop distance).
Orders(entry) ==
    {o \in [type : OrderTypes, sl : Prices, tp : Prices] :
        (o.sl - entry) * (o.tp - entry) < 0 \/ o.sl = entry}

VARIABLES
    engine,             \* "core" | "legacy" | "client" | "sizer" | "config"
    ohlc,               \* whether the bars of the run carry their open price
    risk_per_trade_usd, \* RiskManager.risk_per_trade_usd, in cents
    order,              \* the order a sizing run handed to place_market_order
    strategy,           \* "any" | "ema": the strategy the drivers run
    quiet,              \* whether the series of the run has no impulse bar
    config,             \* the class constructed and its arguments (engine = "config")
    \* strategies/ema_strategy.py and ema_strategy.py EmaPullbackStrategy
    \* (impulse_confirmed is the core strategy's signal_generator's)
    impulse_confirmed, position_open,
    evaluation,         \* the branch the last on_bar took
    signal,             \* the order or trade signal the last on_bar came to
    prev_bar,           \* the row before the last in the strategy's window
    pc,                 \* the driver's position in run()
    bar_index,          \* number of bars streamed so far (the loop's i + 1)
    \* core/broker.py Broker
    balance, open_positions, trade_history, current_bar,
    notified,           \* ids the on_position_closed callback was invoked with
    next_id,            \* identity of the next position object created
    \* core/backtest_engine.py BacktestEngine.run, core/portfolio.py Portfolio
    closed_trades, portfolio_history,
    report,             \* what generate_report / _generate_report computed
    \* backtest_engine.py BacktestBroker (its balance, trade_history and
    \* current_tick_index are balance, trade_history and bar_index)
    open_trade,
    request,            \* what the last on_bar asked of the ledger: "none" | "order"
    \* the client's calls (engine = "client")
    calls, last_call, prev_call,
    \* bot_strategy.py, keltner_pullback_bot.py, live_ema_pullback_bot.py,
    \* choch_bot_v2.py: the attributes (or module globals) of the bot of the
    \* run, with the orders it has sent and the branch its last step took
    bot

brokerVars == <<balance, open_positions, trade_history, current_bar, notified, next_id>>
engineVars == <<closed_trades, portfolio_history, report>>
callVars == <<calls, last_call, prev_call>>
\* What a run is set up with; no step of a driver or of a client changes it.
setup == <<engine, ohlc, risk_per_trade_usd, order, strategy, quiet, config>>
lockVars == <<impulse_confirmed, position_open>>
evalVars == <<evaluation, signal>>
strategyVars == <<lockVars, evalVars, prev_bar>>
\* The state of the backtest drivers, which no bot of the other files touches.
backtest == <<setup, strategyVars, pc, bar_index, brokerVars, engineVars, open_trade,
              request, callVars>>
vars == <<backtest, bot>>

\* A bar of the series: its timestamp (the row's name) and low <= close <= high.
\* No code of the two ledgers reads the open column: the bars carry it
\* (low <= open <= high) only in the runs that are asked about it.
BarsAt(t) ==
    {b \in [name : {t}, open : IF ohlc THEN Prices ELSE {NoValue},
            low : Prices, high : Prices, close : Prices] :
        /\ b.low <= b.close /\ b.close <= b.high
        /\ ohlc => (b.low <= b.open /\ b.open <= b.high)}

InitialBalance == InitialBalanceUsd * 100

\* ------------------------------------------------------------- arithmetic
Abs(x) == IF x < 0 THEN -x ELSE x

\* Python's round() of the exact quotient num/den (den > 0): to the nearest
\* integer, a half going to the even neighbour.
RoundHalfEven(num, den) ==
    LET q == num \div den
        r == num % den
    IN  IF 2 * r < den THEN q
        ELSE IF 2 * r > den THEN q + 1
        ELSE IF q % 2 = 0 THEN q ELSE q + 1

RECURSIVE SumPnl(_)
SumPnl(s) == IF s = <<>> THEN 0 ELSE Head(s).pnl + SumPnl(Tail(s))

\* ------------------------------------------------- core/risk_manager.py
\* The risk amounts a RiskManager is constructed with in a sizing run, in
\* cents: small ones, whose quantized volume is below the minimum, and
\* multiples of 1.25 USD.  With these, and stop distances of up to 4 pips,
\* every tie of the quantization (a volume ending in .5 hundredths) is an odd
\* multiple of 1/8 lot, which a binary float holds exactly, so Python's
\* round() on the float and RoundHalfEven on the exact quotient agree.
Risks == {1, 2} \cup {125 * k : k \in 1..MaxRiskSteps}

\* The stop distances, in pips, that are not zero.
StopDistances == 1..(MaxPrice - 1)

\* final_lot_size = round(risk / sl_pips / pip_value_per_lot, 2), in
\* hundredths of a lot (sl_pips > 0, risk in cents).
Quantized(risk, sl_pips) == RoundHalfEven(risk, sl_pips * PipValuePerLot)

\* Mutant of LotSize: a zero stop distance is sized at the minimum lot.
LotSizeZeroToMin(risk, sl_pips) ==
    IF sl_pips = 0 THEN 1
    ELSE IF Quantized(risk, sl_pips) < 1 THEN 1 ELSE Quantized(risk, sl_pips)

\* Mutant of LotSize: the risk amount divides instead of multiplying.
LotSizeRiskInDenominator(risk, sl_pips) ==
    IF sl_pips = 0 THEN 0
    ELSE LET final_lot_size ==
                 RoundHalfEven(sl_pips * PipValuePerLot * 1000, risk)
         IN  IF final_lot_size < 1 THEN 1 ELSE final_lot_size

\* Mutant of LotSize: a volume below 0.01 is returned as it is.
LotSizeNoFloor(risk, sl_pips) ==
    IF sl_pips = 0 THEN 0 ELSE Quantized(risk, sl_pips)

\* The body of RiskManager.calculate_lot_size for a manager risking `risk`.
LotSize(risk, sl_pips) ==
    IF sl_pips = 0 THEN 0
    ELSE IF Quantized(risk, sl_pips) < 1 THEN 1 ELSE Quantized(risk, sl_pips)

\* RiskManager.calculate_lot_size, in hundredths of a lot.
CalculateLotSize(entry_price, sl_price) ==
    LotSize(risk_per_trade_usd, Abs(entry_price - sl_price))

\* ------------------- keltner_pullback_bot.py, live_ema_pullback_bot.py
Min(a, b) == IF a < b THEN a ELSE b
Max(a, b) == IF a > b THEN a ELSE b

\* calculate_lot_size of the two live bots: round(lot / lot_step) * lot_step,
\* then max(min_lot, min(lot, max_lot)).
BotCalculateLotSize(risk, sl_distance_pips) ==
    IF sl_distance_pips = 0 THEN 0
    ELSE LET lot_size ==
                 RoundHalfEven(risk, sl_distance_pips * PipValuePerLot * VolumeStep)
                 * VolumeStep
         IN  Max(VolumeMin, Min(lot_size, VolumeMax))

\* ------------- strategies/ema_signal_generator.py, ema_order_calculator.py
NoImpulse == [BUY |-> FALSE, SELL |-> FALSE]
NoSignal == [type |-> "None"]

\* The ATR values of the model, in pips: none, and one whose products with the
\* stop multiplier are whole pips.
Atrs == {0, 2}

\* is_uptrend / is_downtrend, as the direction traded.
Trend(last, ind) ==
    IF ind.EMA_slow < last.close THEN "BUY"
    ELSE IF ind.EMA_slow > last.close THEN "SELL"
    ELSE "None"

\* A bar without impulse: its high does not exceed the fast EMA plus
\* impulse_atr_multiplier x ATR and its low does not fall below the fast EMA
\* minus it.  A flat bar (ATR = 0, high = low = EMA) is one.  On a quiet series
\* every bar evaluated has indicator values of this kind.
WithinImpulseBand(last, ind) ==
    /\ 10 * last.high <= 10 * ind.EMA_fast + ImpulseAtrMultiplierTenths * ind.ATR
    /\ 10 * last.low >= 10 * ind.EMA_fast - ImpulseAtrMultiplierTenths * ind.ATR

\* The indicator columns of the last row and the fast EMA of the row before.
\* They are recomputed over the window on every call and are any values here;
\* the fast EMA of the row before is read only by the pullback test, and where
\* that test is not reached one value stands for all.
Indicators(last) ==
    {ind \in [EMA_slow : Prices, EMA_fast : Prices, ATR : Atrs,
              prev_EMA_fast : Prices] :
        /\ \/ ind.prev_EMA_fast = ind.EMA_fast
           \/ /\ Trend(last, ind) # "None"
              /\ impulse_confirmed[Trend(last, ind)]
        /\ quiet => WithinImpulseBand(last, ind)}

\* Mutant of ImpulseSeen: a bar that only touches the impulse distance counts.
ImpulseSeenAtTouch(direction, last, ind) ==
    IF direction = "BUY"
    THEN 10 * last.high >= 10 * ind.EMA_fast + ImpulseAtrMultiplierTenths * ind.ATR
    ELSE 10 * last.low <= 10 * ind.EMA_fast - ImpulseAtrMultiplierTenths * ind.ATR

\* last['high'] > last['EMA_fast'] + impulse_distance, or its mirror.
ImpulseSeen(direction, last, ind) ==
    IF direction = "BUY"
    THEN 10 * last.high > 10 * ind.EMA_fast + ImpulseAtrMultiplierTenths * ind.ATR
    ELSE 10 * last.low < 10 * ind.EMA_fast - ImpulseAtrMultiplierTenths * ind.ATR

\* The pullback test on the last two rows.
Pullback(direction, last, prev, ind) ==
    IF direction = "BUY"
    THEN prev.low > ind.prev_EMA_fast /\ last.low <= ind.EMA_fast
    ELSE prev.high < ind.prev_EMA_fast /\ last.high >= ind.EMA_fast

\* Mutant of Confirmed: the flag of the opposite direction is left as it is.
ConfirmedKeepsOpposite(direction) == [impulse_confirmed EXCEPT ![direction] = TRUE]

\* The flags after an impulse is confirmed: the direction's set, the opposite
\* direction's reset.
Confirmed(direction) == [BUY |-> direction = "BUY", SELL |-> direction = "SELL"]

Opposite(direction) == IF direction = "BUY" THEN "SELL" ELSE "BUY"

\* The branch that confirms an impulse: "switched" when it thereby takes the
\* confirmation from the opposite direction, "confirmed" otherwise.
Confirming(direction) ==
    IF impulse_confirmed[Opposite(direction)] THEN "switched" ELSE "confirmed"

\* Mutant of CheckSetup: the bar that confirms the impulse may signal at once.
CheckSetupSignalsOnImpulse(direction, last, prev, ind) ==
    IF ~impulse_confirmed[direction] /\ ~ImpulseSeen(direction, last, ind)
    THEN [signal_type |-> "None", impulse_confirmed |-> impulse_confirmed,
          evaluation |-> "searching"]
    ELSE IF Pullback(direction, last, prev, ind)
         THEN [signal_type |-> direction, impulse_confirmed |-> Confirmed(direction),
               evaluation |-> "pullback"]
         ELSE [signal_type |-> "None", impulse_confirmed |-> Confirmed(direction),
               evaluation |-> Confirming(direction)]

\* The impulse/pullback tests of one direction: what is returned, the flags
\* left behind and the branch taken.
CheckSetup(direction, last, prev, ind) ==
    IF ~impulse_confirmed[direction]
    THEN IF ImpulseSeen(direction, last, ind)
         THEN [signal_type |-> "None", impulse_confirmed |-> Confirmed(direction),
               evaluation |-> Confirming(direction)]
         ELSE [signal_type |-> "None", impulse_confirmed |-> impulse_confirmed,
               evaluation |-> "searching"]
    ELSE IF Pullback(direction, last, prev, ind)
         THEN [signal_type |-> direction, impulse_confirmed |-> impulse_confirmed,
               evaluation |-> "pullback"]
         ELSE [signal_type |-> "None", impulse_confirmed |-> impulse_confirmed,
               evaluation |-> "no_pullback"]

\* EmaSignalGenerator.check(candles)
SignalGeneratorCheck(rows, last, prev, ind) ==
    IF rows < 2 \/ Trend(last, ind) = "None"
    THEN [signal_type |-> "None", impulse_confirmed |-> impulse_confirmed,
          evaluation |-> "no_trend"]
    ELSE CheckSetup(Trend(last, ind), last, prev, ind)

\* Mutant of StopLevel: the stop sits on the slow EMA, the ATR left out.
StopLevelOnSlowEma(direction, ind) == ind.EMA_slow

\* The stop of both strategies: EMA_slow -/+ sl_atr_multiplier * ATR.
StopLevel(direction, ind) ==
    IF direction = "BUY"
    THEN ind.EMA_slow - (SlAtrMultiplierTenths * ind.ATR) \div 10
    ELSE ind.EMA_slow + (SlAtrMultiplierTenths * ind.ATR) \div 10

\* self.risk_to_reward of the order calculator: the constructor's argument.
risk_to_reward ==
    IF config.class = "EmaOrderCalculator" THEN config.risk_to_reward
    ELSE RiskToReward

\* Mutant of CalculateOrder: the order is returned whatever side of the entry
\* the stop lies on.
CalculateOrderAnyStop(direction, entry_price, ind) ==
    LET sl == StopLevel(direction, ind)
    IN  IF direction = "BUY"
        THEN [type |-> "BUY", entry_price |-> entry_price, sl |-> sl,
              tp |-> entry_price + risk_to_reward * (entry_price - sl)]
        ELSE [type |-> "SELL", entry_price |-> entry_price, sl |-> sl,
              tp |-> entry_price - risk_to_reward * (sl - entry_price)]

\* EmaOrderCalculator.calculate_buy_order / calculate_sell_order for the entry
\* price given (the core strategy: the last close), and the order part of
\* _check_buy_setup / _check_sell_setup (the legacy strategy: the fast EMA).
\* NoSignal is the None they return on a stop at or beyond the entry.
CalculateOrder(direction, entry_price, ind) ==
    LET sl == StopLevel(direction, ind)
    IN  IF direction = "BUY"
        THEN IF entry_price <= sl THEN NoSignal
             ELSE [type |-> "BUY", entry_price |-> entry_price, sl |-> sl,
                   tp |-> entry_price + risk_to_reward * (entry_price - sl)]
        ELSE IF entry_price >= sl THEN NoSignal
             ELSE [type |-> "SELL", entry_price |-> entry_price, sl |-> sl,
                   tp |-> entry_price - risk_to_reward * (sl - entry_price)]

\* Mutant of Locked: on_bar evaluates whether or not a position is open.
LockedNever == FALSE

\* if self.position_open: return
Locked == position_open

\* Mutant of SignalPositionClosed: the lock is cleared, the flags are kept.
SignalPositionClosedKeepsImpulse ==
    /\ position_open' = FALSE
    /\ UNCHANGED impulse_confirmed

\* EmaPullbackStrategy.signal_position_closed()
SignalPositionClosed ==
    /\ position_open' = FALSE
    /\ impulse_confirmed' = NoImpulse

\* strategy.on_position_closed, the method core/backtest_engine.py:26 hands
\* to the ledger.  The strategy class in src/ defines only
\* signal_position_closed; on_position_closed is taken from the specification:
\* it resets all internal flags, as signal_position_closed does.
OnPositionClosed == SignalPositionClosed

\* The position-closed callback, invoked once per closed position: the core
\* ledger calls the registered on_position_closed, the legacy broker calls
\* signal_position_closed.
OnPositionClosedCallback(closed) ==
    IF strategy = "ema" /\ closed # <<>>
    THEN IF engine = "legacy" THEN SignalPositionClosed ELSE OnPositionClosed
    ELSE UNCHANGED lockVars

\* ------------------------------------------------------ core/broker.py
\* Broker._calculate_pnl, in cents.
CalculatePnl(position, close_price) ==
    LET pnl_pips == IF position.type = "BUY"
                    THEN close_price - position.entry_price
                    ELSE position.entry_price - close_price
    IN  pnl_pips * PipValuePerLot * position.volume

\* Mutant of ClosedBy: a hit is filled at the bar's extreme, not at the level.
ClosedByAtBarExtreme(pos, bar) ==
    IF pos.type = "BUY"
    THEN IF bar.low <= pos.sl_price THEN <<"SL", bar.low>>
         ELSE IF bar.high >= pos.tp_price THEN <<"TP", bar.high>>
         ELSE <<"None", NoValue>>
    ELSE IF pos.type = "SELL"
    THEN IF bar.high >= pos.sl_price THEN <<"SL", bar.high>>
         ELSE IF bar.low <= pos.tp_price THEN <<"TP", bar.low>>
         ELSE <<"None", NoValue>>
    ELSE <<"None", NoValue>>

\* Mutant of ClosedBy: the target is tested before the stop.
ClosedByTargetFirst(pos, bar) ==
    IF pos.type = "BUY"
    THEN IF bar.high >= pos.tp_price THEN <<"TP", pos.tp_price>>
         ELSE IF bar.low <= pos.sl_price THEN <<"SL", pos.sl_price>>
         ELSE <<"None", NoValue>>
    ELSE IF pos.type = "SELL"
    THEN IF bar.low <= pos.tp_price THEN <<"TP", pos.tp_price>>
         ELSE IF bar.high >= pos.sl_price THEN <<"SL", pos.sl_price>>
         ELSE <<"None", NoValue>>
    ELSE <<"None", NoValue>>

\* The SL/TP test of check_open_trades for one position: <<closed_by, close_price>>.
ClosedBy(pos, bar) ==
    IF pos.type = "BUY"
    THEN IF bar.low <= pos.sl_price THEN <<"SL", pos.sl_price>>
         ELSE IF bar.high >= pos.tp_price THEN <<"TP", pos.tp_price>>
         ELSE <<"None", NoValue>>
    ELSE IF pos.type = "SELL"
    THEN IF bar.high >= pos.sl_price THEN <<"SL", pos.sl_price>>
         ELSE IF bar.low <= pos.tp_price THEN <<"TP", pos.tp_price>>
         ELSE <<"None", NoValue>>
    ELSE <<"None", NoValue>>

\* pos.update({'pnl', 'close_price', 'close_time'})
Closed(pos, close_price, close_time) ==
    [pos EXCEPT !.pnl = CalculatePnl(pos, close_price),
                !.close_price = close_price,
                !.close_time = close_time]

\* The positions the loop of check_open_trades closes on this bar, updated.
RECURSIVE PositionsToClose(_, _)
PositionsToClose(positions, bar) ==
    IF positions = <<>> THEN <<>>
    ELSE LET pos == Head(positions)
             hit == ClosedBy(pos, bar)
             rest == PositionsToClose(Tail(positions), bar)
         IN  IF hit[1] # "None"
             THEN <<Closed(pos, hit[2], bar.name)>> \o rest
             ELSE rest

RECURSIVE Ids(_)
Ids(s) == IF s = <<>> THEN <<>> ELSE <<Head(s).id>> \o Ids(Tail(s))

IdSet(s) == {s[k].id : k \in 1..Len(s)}

\* Mutant of CheckOpenTrades: the callback is not invoked.
CheckOpenTradesSilent(bar) ==
    LET positions_to_close == PositionsToClose(open_positions, bar)
    IN  /\ current_bar' = bar
        /\ balance' = balance + SumPnl(positions_to_close)
        /\ trade_history' = trade_history \o positions_to_close
        /\ open_positions' =
               SelectSeq(open_positions,
                         LAMBDA p : p.id \notin IdSet(positions_to_close))
        /\ UNCHANGED <<notified, next_id, lockVars>>

\* Mutant of CheckOpenTrades: the closed positions stay in open_positions.
CheckOpenTradesKeepsOpen(bar) ==
    LET positions_to_close == PositionsToClose(open_positions, bar)
    IN  /\ current_bar' = bar
        /\ balance' = balance + SumPnl(positions_to_close)
        /\ trade_history' = trade_history \o positions_to_close
        /\ notified' = notified \o Ids(positions_to_close)
        /\ OnPositionClosedCallback(positions_to_close)
        /\ UNCHANGED <<open_positions, next_id>>

\* Broker.check_open_trades(current_bar)
CheckOpenTrades(bar) ==
    LET positions_to_close == PositionsToClose(open_positions, bar)
    IN  /\ current_bar' = bar
        /\ balance' = balance + SumPnl(positions_to_close)
        /\ trade_history' = trade_history \o positions_to_close
        /\ notified' = notified \o Ids(positions_to_close)
        /\ OnPositionClosedCallback(positions_to_close)
        /\ open_positions' =
               SelectSeq(open_positions,
                         LAMBDA p : p.id \notin IdSet(positions_to_close))
        /\ UNCHANGED next_id

\* The position dict place_market_order builds.
NewPosition(order_type, lot_size, sl_price, tp_price) ==
    [id |-> next_id, type |-> order_type, volume |-> lot_size,
     entry_price |-> current_bar.close, sl_price |-> sl_price,
     tp_price |-> tp_price, entry_time |-> current_bar.name,
     pnl |-> 0, close_price |-> NoValue, close_time |-> NoValue]

\* self.risk_manager.min_lot: the minimum volume the run is configured with.
min_lot == IF "min_lot" \in DOMAIN config THEN config.min_lot ELSE MinLot

\* Mutant of OrderRejected: the open_positions guard is missing.
OrderRejectedNoOpenGuard(sl_price) ==
    CalculateLotSize(current_bar.close, sl_price) < min_lot

\* Whether place_market_order returns without opening a position.
OrderRejected(sl_price) ==
    \/ open_positions # <<>>
    \/ CalculateLotSize(current_bar.close, sl_price) < min_lot

\* Mutant of PlaceMarketOrder: an accepted order debits the amount at risk.
PlaceMarketOrderDebitsRisk(order_type, sl_price, tp_price) ==
    IF OrderRejected(sl_price)
    THEN UNCHANGED brokerVars
    ELSE /\ open_positions' =
                Append(open_positions,
                       NewPosition(order_type,
                                   CalculateLotSize(current_bar.close, sl_price),
                                   sl_price, tp_price))
         /\ next_id' = next_id + 1
         /\ balance' = balance - risk_per_trade_usd
         /\ UNCHANGED <<trade_history, current_bar, notified>>

\* Broker.place_market_order(order_type, sl_price, tp_price)
PlaceMarketOrder(order_type, sl_price, tp_price) ==
    IF OrderRejected(sl_price)
    THEN UNCHANGED brokerVars
    ELSE /\ open_positions' =
                Append(open_positions,
                       NewPosition(order_type,
                                   CalculateLotSize(current_bar.close, sl_price),
                                   sl_price, tp_price))
         /\ next_id' = next_id + 1
         /\ UNCHANGED <<balance, trade_history, current_bar, notified>>

\* The closed_trades list close_all_open_positions builds.
RECURSIVE ClosedAtEnd(_, _)
ClosedAtEnd(positions, final_bar) ==
    IF positions = <<>> THEN <<>>
    ELSE <<Closed(Head(positions), final_bar.close, final_bar.name)>>
         \o ClosedAtEnd(Tail(positions), final_bar)

\* Mutant of CloseAllOpenPositions: the closed positions also go to trade_history.
CloseAllAlsoInHistory(final_bar) ==
    /\ closed_trades' = ClosedAtEnd(open_positions, final_bar)
    /\ balance' = balance + SumPnl(ClosedAtEnd(open_positions, final_bar))
    /\ trade_history' = trade_history \o ClosedAtEnd(open_positions, final_bar)
    /\ open_positions' = <<>>
    /\ UNCHANGED <<current_bar, notified, next_id>>

\* Mutant of CloseAllOpenPositions: open_positions is not emptied.
CloseAllKeepsOpen(final_bar) ==
    /\ closed_trades' = ClosedAtEnd(open_positions, final_bar)
    /\ balance' = balance + SumPnl(ClosedAtEnd(open_positions, final_bar))
    /\ UNCHANGED <<open_positions, trade_history, current_bar, notified, next_id>>

\* Mutant of CloseAllOpenPositions: the balance is not updated.
CloseAllNoBalance(final_bar) ==
    /\ closed_trades' = ClosedAtEnd(open_positions, final_bar)
    /\ open_positions' = <<>>
    /\ UNCHANGED <<balance, trade_history, current_bar, notified, next_id>>

\* Broker.close_all_open_positions(final_bar); closed_trades is what it returns.
CloseAllOpenPositions(final_bar) ==
    /\ closed_trades' = ClosedAtEnd(open_positions, final_bar)
    /\ balance' = balance + SumPnl(ClosedAtEnd(open_positions, final_bar))
    /\ open_positions' = <<>>
    /\ UNCHANGED <<trade_history, current_bar, notified, next_id>>

\* ---------------------------------------------------- core/portfolio.py
NoReport == [text |-> "None"]

\* The sum of the pnl of the trades of s that test picks.
SumPnlOf(s, test(_)) == SumPnl(SelectSeq(s, test))

\* A quotient the reporters compute, kept as its numerator and denominator.
Ratio(num, den) == [inf |-> FALSE, num |-> num, den |-> den]

\* Mutant of ProfitFactor: the division is made whatever the losses.
ProfitFactorAlwaysDivides(total_win_pnl, total_loss_pnl) ==
    Ratio(total_win_pnl, total_loss_pnl)

\* total_win_pnl / total_loss_pnl if total_loss_pnl > 0 else float('inf')
ProfitFactor(total_win_pnl, total_loss_pnl) ==
    IF total_loss_pnl > 0
    THEN Ratio(total_win_pnl, total_loss_pnl)
    ELSE [inf |-> TRUE, num |-> total_win_pnl, den |-> total_loss_pnl]

\* Portfolio.generate_report(final_balance) over the portfolio's history.
GenerateReport(history, final_balance) ==
    LET total_trades == Len(history)
        pnl == final_balance - InitialBalance
        wins == SelectSeq(history, LAMBDA t : t.pnl >= 0)
        losses == SelectSeq(history, LAMBDA t : t.pnl < 0)
        total_win_pnl == SumPnl(wins)
        total_loss_pnl == Abs(SumPnl(losses))
    IN  IF total_trades = 0
        THEN [text |-> "No trades were executed.",
              final_balance |-> final_balance]
        ELSE [text |-> "Results",
              final_balance |-> final_balance,
              pnl |-> pnl,
              pnl_percent |-> Ratio(pnl * 100, InitialBalance),
              total_trades |-> total_trades,
              wins |-> Len(wins),
              losses |-> Len(losses),
              win_rate |-> Ratio(Len(wins) * 100, total_trades),
              profit_factor |-> ProfitFactor(total_win_pnl, total_loss_pnl)]

\* ------------------------------------------- core/backtest_engine.py
\* The number of bars of the series.
BarsOfRun == IF strategy = "ema" THEN MaxEmaBars ELSE MaxBars

\* The row that comes before the new bar in the window handed to the
\* strategy: only the EMA pullback strategy reads it, only its low and its
\* high, and only in the pullback test, which on_bar reaches when it is not
\* locked and an impulse is confirmed; where it is not read one value stands
\* for all.
RowBeforeLast ==
    IF strategy = "ema" /\ ~position_open' /\ impulse_confirmed' # NoImpulse
    THEN [low |-> current_bar.low, high |-> current_bar.high]
    ELSE [low |-> NoValue, high |-> NoValue]

\* One turn of the loop of BacktestEngine.run, first half: the next bar is
\* streamed and the broker checks its open trades against it.
EngineCheck ==
    /\ engine = "core"
    /\ pc = "check"
    /\ bar_index < BarsOfRun
    /\ \E bar \in BarsAt(bar_index + 1) : CheckOpenTrades(bar)
    /\ bar_index' = bar_index + 1
    /\ prev_bar' = RowBeforeLast
    /\ pc' = "on_bar"
    /\ UNCHANGED <<bot, setup, evalVars, engineVars, open_trade, request, callVars>>

\* EmaPullbackStrategy.on_bar(candles) of strategies/ema_strategy.py, the
\* last row of candles being the broker's current bar.
EmaOnBar ==
    IF Locked
    THEN /\ evaluation' = "locked"
         /\ signal' = NoSignal
         /\ request' = "none"
         /\ UNCHANGED <<lockVars, brokerVars>>
    ELSE \E ind \in Indicators(current_bar) :
           LET checked == SignalGeneratorCheck(WindowRows, current_bar, prev_bar, ind)
               order_details ==
                   IF checked.signal_type = "None" THEN NoSignal
                   ELSE CalculateOrder(checked.signal_type, current_bar.close, ind)
           IN  /\ impulse_confirmed' = checked.impulse_confirmed
               /\ signal' = order_details
               /\ IF order_details.type = "None"
                  THEN /\ evaluation' = IF checked.signal_type = "None"
                                        THEN checked.evaluation
                                        ELSE "invalid_stop"
                       /\ request' = "none"
                       /\ UNCHANGED <<position_open, brokerVars>>
                  ELSE /\ evaluation' = "signal"
                       /\ request' = "order"
                       /\ PlaceMarketOrder(order_details.type, order_details.sl,
                                           order_details.tp)
                       /\ position_open' = TRUE

\* Mutant of EngineOnBar: check_open_trades runs again after the strategy, so
\* a new position is tested against the bar it was opened on.
EngineOnBarThenCheck ==
    /\ engine = "core"
    /\ pc = "on_bar"
    /\ UNCHANGED strategyVars
    /\ IF bar_index < NBarsForEntry
       THEN UNCHANGED brokerVars /\ request' = "none"
       ELSE \/ UNCHANGED brokerVars /\ request' = "none"
            \/ /\ request' = "order"
               /\ \E o \in Orders(current_bar.close) :
                      IF OrderRejected(o.sl)
                      THEN UNCHANGED brokerVars
                      ELSE LET pos == NewPosition(o.type,
                                          CalculateLotSize(current_bar.close, o.sl),
                                          o.sl, o.tp)
                               closed == PositionsToClose(<<pos>>, current_bar)
                           IN  /\ next_id' = next_id + 1
                               /\ trade_history' = trade_history \o closed
                               /\ balance' = balance + SumPnl(closed)
                               /\ notified' = notified \o Ids(closed)
                               /\ open_positions' =
                                      IF closed = <<>> THEN <<pos>> ELSE <<>>
                               /\ UNCHANGED current_bar
    /\ pc' = "check"
    /\ UNCHANGED <<bot, setup, bar_index, engineVars, open_trade, callVars>>

\* Second half: strategy.on_bar(historical_data), skipped while the window is
\* short.  Any strategy places no order or one order; the EMA pullback
\* strategy does what its on_bar says.
EngineOnBar ==
    /\ engine = "core"
    /\ pc = "on_bar"
    /\ IF bar_index < NBarsForEntry
       THEN UNCHANGED <<brokerVars, lockVars, signal>>
            /\ request' = "none"
            /\ evaluation' = IF strategy = "ema" THEN "skipped" ELSE evaluation
       ELSE IF strategy = "ema"
            THEN EmaOnBar
            ELSE /\ UNCHANGED <<lockVars, evalVars>>
                 /\ \/ UNCHANGED brokerVars /\ request' = "none"
                    \/ /\ \E o \in Orders(current_bar.close) :
                              PlaceMarketOrder(o.type, o.sl, o.tp)
                       /\ request' = "order"
    /\ pc' = "check"
    /\ UNCHANGED <<bot, setup, prev_bar, bar_index, engineVars, open_trade, callVars>>

\* data_handler.get_last_bar(): the last bar of the series.
GetLastBar == current_bar

\* The series ends (it holds at least one bar): close_all_open_positions on
\* the last bar.
EngineCloseAll ==
    /\ engine = "core"
    /\ pc = "check"
    /\ bar_index >= 1
    /\ CloseAllOpenPositions(GetLastBar)
    /\ pc' = "report"
    /\ UNCHANGED <<bot, setup, strategyVars, bar_index, portfolio_history, report, open_trade,
                   request, callVars>>

\* portfolio.add_trades(closed_trades); portfolio.add_trades(broker.trade_history);
\* portfolio.generate_report(broker.balance)
EngineReport ==
    /\ engine = "core"
    /\ pc = "report"
    /\ portfolio_history' = (portfolio_history \o closed_trades) \o trade_history
    /\ report' = GenerateReport(portfolio_history', balance)
    /\ pc' = "done"
    /\ UNCHANGED <<bot, setup, strategyVars, bar_index, brokerVars, closed_trades,
                   open_trade, request, callVars>>


\* ---------------------------------------- backtest_engine.py (legacy)
LegacyInitialBalance == InitialBalanceUsd * PipsPerPriceUnit

NoTrade == [status |-> "None"]

\* The SL/TP test of BacktestBroker._check_open_trades: hit.
Hit(trade, bar) ==
    IF trade.type = "BUY"
    THEN IF bar.low <= trade.sl THEN "SL"
         ELSE IF bar.high >= trade.tp THEN "TP"
         ELSE "None"
    ELSE IF trade.type = "SELL"
    THEN IF bar.high >= trade.sl THEN "SL"
         ELSE IF bar.low <= trade.tp THEN "TP"
         ELSE "None"
    ELSE "None"

\* The trade dict as _check_open_trades leaves it when it closes the trade.
ClosedTrade(trade, hit, bar) ==
    LET exit_price == IF hit = "SL" THEN trade.sl ELSE trade.tp
        pnl == IF trade.type = "BUY"
               THEN exit_price - trade.entry_price
               ELSE trade.entry_price - exit_price
    IN  [trade EXCEPT !.status = "closed",
                      !.exit_time = bar.name,
                      !.exit_price = exit_price,
                      !.pnl = pnl,
                      !.result = IF hit = "TP" THEN "Win" ELSE "Loss"]

\* BacktestBroker._check_open_trades() on the bar at current_tick_index - 1
LegacyCheckOpenTrades(bar) ==
    IF open_trade = NoTrade \/ Hit(open_trade, bar) = "None"
    THEN UNCHANGED <<open_trade, trade_history, balance, notified, lockVars>>
    ELSE LET trade == ClosedTrade(open_trade, Hit(open_trade, bar), bar)
         IN  /\ trade_history' = Append(trade_history, trade)
             /\ balance' = balance + trade.pnl
             /\ open_trade' = NoTrade
             /\ notified' = Append(notified, trade.id)
             /\ OnPositionClosedCallback(<<trade>>)

\* Mutant of SignalIgnored: a signal replaces the open trade.
SignalNeverIgnored == FALSE

\* Whether _execute_trade ignores the signal.
SignalIgnored == open_trade # NoTrade

\* BacktestBroker._execute_trade(trade_signal)
ExecuteTrade(trade_signal) ==
    IF SignalIgnored
    THEN UNCHANGED <<open_trade, next_id>>
    ELSE /\ open_trade' =
                [id |-> next_id, type |-> trade_signal.type,
                 entry_price |-> trade_signal.entry_price,
                 sl |-> trade_signal.sl, tp |-> trade_signal.tp,
                 entry_time |-> bar_index, status |-> "open",
                 exit_time |-> NoValue, exit_price |-> NoValue,
                 pnl |-> NoValue, result |-> "None"]
         /\ next_id' = next_id + 1

\* The signals a strategy may return on a bar: an entry price within the bar
\* and a stop and a target as in Orders.
Signals(bar) ==
    {[type |-> o.type, entry_price |-> e, sl |-> o.sl, tp |-> o.tp] :
        e \in bar.low..bar.high, o \in [type : OrderTypes, sl : Prices, tp : Prices]}
    \ {s \in [type : OrderTypes, entry_price : Prices, sl : Prices, tp : Prices] :
        ~((s.sl - s.entry_price) * (s.tp - s.entry_price) < 0)}

\* One turn of the loop of BacktestBroker.run, first half: current_tick_index
\* moves to the next bar and an open trade is checked against it.
LegacyCheck ==
    /\ engine = "legacy"
    /\ pc = "check"
    /\ bar_index < BarsOfRun
    /\ \E bar \in BarsAt(bar_index + 1) :
           /\ current_bar' = bar
           /\ LegacyCheckOpenTrades(bar)
    /\ bar_index' = bar_index + 1
    /\ prev_bar' = RowBeforeLast
    /\ pc' = "on_bar"
    /\ UNCHANGED <<bot, setup, evalVars, open_positions, next_id, engineVars, request,
                   callVars>>

\* EmaPullbackStrategy.on_bar(candles) of ema_strategy.py: what it returns is
\* signal, and a signal goes to _execute_trade.
LegacyEmaOnBar ==
    IF Locked
    THEN /\ evaluation' = "locked"
         /\ signal' = NoSignal
         /\ request' = "none"
         /\ UNCHANGED <<lockVars, open_trade, next_id>>
    ELSE \E ind \in Indicators(current_bar) :
           LET direction == Trend(current_bar, ind)
               checked == IF direction = "None"
                          THEN [signal_type |-> "None",
                                impulse_confirmed |-> impulse_confirmed,
                                evaluation |-> "no_trend"]
                          ELSE CheckSetup(direction, current_bar, prev_bar, ind)
               trade_signal ==
                   IF checked.signal_type = "None" THEN NoSignal
                   ELSE CalculateOrder(checked.signal_type, ind.EMA_fast, ind)
           IN  /\ impulse_confirmed' = checked.impulse_confirmed
               /\ signal' = trade_signal
               /\ IF trade_signal.type = "None"
                  THEN /\ evaluation' = IF checked.signal_type = "None"
                                        THEN checked.evaluation
                                        ELSE "invalid_stop"
                       /\ request' = "none"
                       /\ UNCHANGED <<position_open, open_trade, next_id>>
                  ELSE /\ evaluation' = "signal"
                       /\ request' = "order"
                       /\ position_open' = TRUE
                       /\ ExecuteTrade(trade_signal)

\* Second half: from bar i >= N_BARS_FOR_ENTRY on, strategy.on_bar returns a
\* signal or None, and a signal goes to _execute_trade.
LegacyOnBar ==
    /\ engine = "legacy"
    /\ pc = "on_bar"
    /\ IF bar_index - 1 >= NBarsForEntry
       THEN IF strategy = "ema"
            THEN LegacyEmaOnBar
            ELSE /\ UNCHANGED <<lockVars, evalVars>>
                 /\ \/ UNCHANGED <<open_trade, next_id>> /\ request' = "none"
                    \/ /\ \E trade_signal \in Signals(current_bar) :
                              ExecuteTrade(trade_signal)
                       /\ request' = "order"
       ELSE UNCHANGED <<open_trade, next_id, lockVars, signal>>
            /\ request' = "none"
            /\ evaluation' = IF strategy = "ema" THEN "skipped" ELSE evaluation
    /\ pc' = "check"
    /\ UNCHANGED <<bot, setup, prev_bar, bar_index, balance, open_positions,
                   trade_history, current_bar, notified, engineVars, callVars>>

\* BacktestBroker._generate_report(): the balance lines come before the test
\* for an empty history.
LegacyGenerateReport ==
    LET total_pnl == balance - LegacyInitialBalance
        total_trades == Len(trade_history)
        wins == Len(SelectSeq(trade_history, LAMBDA t : t.result = "Win"))
        total_win_pnl == SumPnlOf(trade_history, LAMBDA t : t.result = "Win")
        total_loss_pnl == Abs(SumPnlOf(trade_history, LAMBDA t : t.result = "Loss"))
    IN  IF trade_history = <<>>
        THEN [text |-> "No trades were executed.",
              final_balance |-> balance,
              pnl |-> total_pnl,
              pnl_percent |-> Ratio(total_pnl * 100, LegacyInitialBalance)]
        ELSE [text |-> "Results",
              final_balance |-> balance,
              pnl |-> total_pnl,
              pnl_percent |-> Ratio(total_pnl * 100, LegacyInitialBalance),
              total_trades |-> total_trades,
              wins |-> wins,
              losses |-> total_trades - wins,
              win_rate |-> Ratio(wins * 100, total_trades),
              profit_factor |-> ProfitFactor(total_win_pnl, total_loss_pnl)]

\* The loop is over: _generate_report() reads balance and trade_history.
LegacyReport ==
    /\ engine = "legacy"
    /\ pc = "check"
    /\ bar_index >= 1
    /\ report' = LegacyGenerateReport
    /\ pc' = "done"
    /\ UNCHANGED <<bot, setup, strategyVars, bar_index, brokerVars, closed_trades,
                   portfolio_history, open_trade, request, callVars>>

\* --------------------------------------------- the Broker and any client
Called(name) ==
    /\ calls < MaxCalls
    /\ calls' = calls + 1
    /\ prev_call' = last_call
    /\ last_call' = name

ClientCheck ==
    /\ engine = "client"
    /\ Called("check_open_trades")
    /\ \E bar \in BarsAt(bar_index + 1) : CheckOpenTrades(bar)
    /\ bar_index' = bar_index + 1
    /\ UNCHANGED <<bot, setup, evalVars, prev_bar, pc, engineVars, open_trade, request>>

\* Before the first check_open_trades the broker has no current_bar and
\* place_market_order raises before it assigns anything.
ClientOrder ==
    /\ engine = "client"
    /\ current_bar # NoBar
    /\ Called("place_market_order")
    /\ \E o \in Orders(current_bar.close) : PlaceMarketOrder(o.type, o.sl, o.tp)
    /\ request' = "order"
    /\ UNCHANGED <<bot, setup, strategyVars, pc, bar_index, engineVars, open_trade>>

ClientCloseAll ==
    /\ engine = "client"
    /\ current_bar # NoBar
    /\ Called("close_all_open_positions")
    /\ \E final_bar \in BarsAt(bar_index) : CloseAllOpenPositions(final_bar)
    /\ UNCHANGED <<bot, setup, strategyVars, pc, bar_index, portfolio_history, report,
                   open_trade, request>>

\* ------------------------------------------- a RiskManager and its Broker
\* A fresh broker receives its first bar.
SizerCheck ==
    /\ engine = "sizer"
    /\ current_bar = NoBar
    /\ \E bar \in BarsAt(bar_index + 1) : CheckOpenTrades(bar)
    /\ bar_index' = bar_index + 1
    /\ UNCHANGED <<bot, setup, evalVars, prev_bar, pc, engineVars, open_trade, request,
                   callVars>>

\* One order is sized and placed on that bar.
SizerOrder ==
    /\ engine = "sizer"
    /\ current_bar # NoBar
    /\ order = NoOrder
    /\ \E o \in Orders(current_bar.close) :
           /\ order' = o
           /\ PlaceMarketOrder(o.type, o.sl, o.tp)
    /\ request' = "order"
    /\ UNCHANGED <<bot, engine, ohlc, risk_per_trade_usd, strategy, quiet, config,
                   strategyVars, pc,
                   bar_index, engineVars, open_trade, callVars>>

\* ------------------------------------- construction with any arguments
\* The risk-to-reward ratios and the pip sizes a constructor may be given.
RiskToRewards == -1..RiskToReward
PipSizes == {0, 1}

\* The constructions: BotStrategy(risk_to_reward),
\* EmaOrderCalculator(risk_to_reward, sl_atr_multiplier),
\* RiskManager(risk_per_trade_usd, pip_size, pip_value_per_lot).
Configs ==
    [class : {"BotStrategy", "EmaOrderCalculator"},
     risk_to_reward : RiskToRewards, pip_size : {1}]
    \cup [class : {"RiskManager"}, risk_to_reward : {RiskToReward},
          pip_size : PipSizes]

\* Whether __init__ raises: only BotStrategy tests its argument.
ConstructorRaises(c) == c.class = "BotStrategy" /\ c.risk_to_reward <= 0

\* __init__ of the class with the arguments of config.
ConfigConstruct ==
    /\ engine = "config"
    /\ pc = "new"
    /\ pc' = IF ConstructorRaises(config) THEN "error" ELSE "ready"
    /\ UNCHANGED <<bot, setup, strategyVars, bar_index, brokerVars, engineVars,
                   open_trade, request, callVars>>

\* The simulation's first bar reaches the broker.
ConfigCheck ==
    /\ engine = "config"
    /\ pc = "ready"
    /\ current_bar = NoBar
    /\ \E bar \in BarsAt(bar_index + 1) : CheckOpenTrades(bar)
    /\ bar_index' = bar_index + 1
    /\ UNCHANGED <<bot, setup, evalVars, prev_bar, pc, engineVars, open_trade, request,
                   callVars>>

\* The first order on that bar.  With the order calculator constructed, it
\* computes the order and the order goes to the broker; with the risk manager
\* constructed, the broker sizes an order with it, and calculate_lot_size
\* divides by pip_size (ZeroDivisionError, before anything is assigned);
\* BotStrategy stands for any strategy.
ConfigOrder ==
    /\ engine = "config"
    /\ pc = "ready"
    /\ current_bar # NoBar
    /\ request' = "order"
    /\ IF config.class = "EmaOrderCalculator"
       THEN \E ind \in Indicators(current_bar), direction \in OrderTypes :
              LET order_details == CalculateOrder(direction, current_bar.close, ind)
              IN  /\ signal' = order_details
                  /\ IF order_details.type = "None"
                     THEN UNCHANGED brokerVars
                     ELSE PlaceMarketOrder(order_details.type, order_details.sl,
                                           order_details.tp)
                  /\ pc' = "done"
       ELSE /\ UNCHANGED signal
            /\ IF config.pip_size = 0
               THEN UNCHANGED brokerVars /\ pc' = "error"
               ELSE /\ \E o \in Orders(current_bar.close) :
                          PlaceMarketOrder(o.type, o.sl, o.tp)
                    /\ pc' = "done"
    /\ UNCHANGED <<bot, setup, lockVars, evaluation, prev_bar, bar_index, engineVars,
                   open_trade, callVars>>

\* ------------------------------------------------------------ behaviours
InitBroker ==
    /\ open_positions = <<>>
    /\ trade_history = <<>>
    /\ current_bar = NoBar
    /\ notified = <<>>
    /\ next_id = 1

InitStrategy ==
    /\ impulse_confirmed = NoImpulse
    /\ position_open = FALSE
    /\ evaluation = "none"
    /\ signal = NoSignal
    /\ prev_bar = [low |-> NoValue, high |-> NoValue]

InitCommon ==
    /\ bot = NoBot
    /\ bar_index = 0
    /\ InitStrategy
    /\ order = NoOrder
    /\ InitBroker
    /\ open_trade = NoTrade
    /\ closed_trades = <<>>
    /\ portfolio_history = <<>>
    /\ report = NoReport
    /\ request = "none"
    /\ calls = 0
    /\ last_call = "none"
    /\ prev_call = "none"

\* After BacktestEngine.__init__, or after BacktestBroker.__init__.
Init ==
    /\ engine \in {"core", "legacy"}
    /\ ohlc = FALSE
    /\ quiet = FALSE
    /\ config = NoConfig
    /\ strategy = "any"
    /\ risk_per_trade_usd = RiskPerTradeUsd * 100
    /\ balance = IF engine = "core" THEN InitialBalance ELSE LegacyInitialBalance
    /\ pc = "check"
    /\ InitCommon

Next ==
    \/ EngineCheck
    \/ EngineOnBar
    \/ EngineCloseAll
    \/ EngineReport
    \/ LegacyCheck
    \/ LegacyOnBar
    \/ LegacyReport

Spec == Init /\ [][Next]_vars

\* The same two drivers on a series whose bars carry their open price.
InitOhlc ==
    /\ engine \in {"core", "legacy"}
    /\ ohlc = TRUE
    /\ quiet = FALSE
    /\ config = NoConfig
    /\ strategy = "any"
    /\ risk_per_trade_usd = RiskPerTradeUsd * 100
    /\ balance = IF engine = "core" THEN InitialBalance ELSE LegacyInitialBalance
    /\ pc = "check"
    /\ InitCommon

SpecOhlc == InitOhlc /\ [][Next]_vars

\* The two drivers running the EMA pullback strategy: BacktestEngine with
\* strategies/ema_strategy.py, BacktestBroker with ema_strategy.py.
InitEma ==
    /\ engine \in {"core", "legacy"}
    /\ ohlc = FALSE
    /\ quiet = FALSE
    /\ config = NoConfig
    /\ strategy = "ema"
    /\ risk_per_trade_usd = RiskPerTradeUsd * 100
    /\ balance = IF engine = "core" THEN InitialBalance ELSE LegacyInitialBalance
    /\ pc = "check"
    /\ InitCommon

SpecEma == InitEma /\ [][Next]_vars

\* The same two drivers and strategies with a minimum volume above the 0.01
\* lot that calculate_lot_size floors to, and a risk amount that sizes a stop
\* of one pip at that minimum and a wider stop below it.
InitMinLot ==
    /\ engine \in {"core", "legacy"}
    /\ ohlc = FALSE
    /\ quiet = FALSE
    /\ config = [class |-> "RiskManager", risk_to_reward |-> RiskToReward,
                 pip_size |-> 1, min_lot |-> MinLot + 1]
    /\ strategy = "ema"
    /\ risk_per_trade_usd = (MinLot + 1) * PipValuePerLot
    /\ balance = IF engine = "core" THEN InitialBalance ELSE LegacyInitialBalance
    /\ pc = "check"
    /\ InitCommon

SpecMinLot == InitMinLot /\ [][Next]_vars

\* The same two drivers and strategies on a series without an impulse bar.
InitQuiet ==
    /\ engine \in {"core", "legacy"}
    /\ ohlc = FALSE
    /\ quiet = TRUE
    /\ config = NoConfig
    /\ strategy = "ema"
    /\ risk_per_trade_usd = RiskPerTradeUsd * 100
    /\ balance = IF engine = "core" THEN InitialBalance ELSE LegacyInitialBalance
    /\ pc = "check"
    /\ InitCommon

SpecQuiet == InitQuiet /\ [][Next]_vars

\* After Broker.__init__, the broker in the hands of any client.
InitClient ==
    /\ engine = "client"
    /\ ohlc = FALSE
    /\ quiet = FALSE
    /\ config = NoConfig
    /\ strategy = "any"
    /\ risk_per_trade_usd = RiskPerTradeUsd * 100
    /\ balance = InitialBalance
    /\ pc = "client"
    /\ InitCommon

NextClient ==
    \/ ClientCheck
    \/ ClientOrder
    \/ ClientCloseAll

SpecClient == InitClient /\ [][NextClient]_vars

\* A Broker over a RiskManager constructed with any of the risk amounts.
InitSizer ==
    /\ engine = "sizer"
    /\ ohlc = FALSE
    /\ quiet = FALSE
    /\ config = NoConfig
    /\ strategy = "any"
    /\ risk_per_trade_usd \in Risks
    /\ balance = InitialBalance
    /\ pc = "sizer"
    /\ InitCommon

NextSizer ==
    \/ SizerCheck
    \/ SizerOrder

SpecSizer == InitSizer /\ [][NextSizer]_vars

\* A class about to be constructed with any of the configurations, and the
\* first step of a simulation with what was constructed.
InitConfig ==
    /\ engine = "config"
    /\ ohlc = FALSE
    /\ quiet = FALSE
    /\ config \in Configs
    /\ strategy = "any"
    /\ risk_per_trade_usd = RiskPerTradeUsd * 100
    /\ balance = InitialBalance
    /\ pc = "new"
    /\ InitCommon

NextConfig ==
    \/ ConfigConstruct
    \/ ConfigCheck
    \/ ConfigOrder

SpecConfig == InitConfig /\ [][NextConfig]_vars

\* The reporters over any short closed-trade history.  The trades risk one pip
\* for a target RiskToReward pips away; the core ledger closed them at the
\* stop, at the target or at the entry (end of data), the legacy ledger at the
\* stop or at the target.
ReportedGeometries ==
    {g \in [type : OrderTypes, entry_price : Prices, sl : Prices, tp : Prices] :
        /\ Abs(g.entry_price - g.sl) = 1
        /\ g.tp - g.entry_price = RiskToReward * (g.entry_price - g.sl)
        /\ g.type = "BUY" <=> g.sl < g.entry_price}

ReportedPositions ==
    UNION {{Closed([id |-> 1, type |-> g.type,
                    volume |-> LotSize(RiskPerTradeUsd * 100, 1),
                    entry_price |-> g.entry_price, sl_price |-> g.sl,
                    tp_price |-> g.tp, entry_time |-> 1, pnl |-> 0,
                    close_price |-> NoValue, close_time |-> NoValue],
                   close_price, 2) :
               close_price \in {g.sl, g.tp, g.entry_price}} :
           g \in ReportedGeometries}

ReportedTrades ==
    {ClosedTrade([id |-> 1, type |-> g.type, entry_price |-> g.entry_price,
                  sl |-> g.sl, tp |-> g.tp, entry_time |-> 1, status |-> "open",
                  exit_time |-> NoValue, exit_price |-> NoValue,
                  pnl |-> NoValue, result |-> "None"], hit, [name |-> 2]) :
        g \in ReportedGeometries, hit \in {"SL", "TP"}}

\* The sequences of at most n elements of S.
SeqsUpTo(S, n) == UNION {[1..k -> S] : k \in 0..n}

\* The loop of a driver is over (the core engine has closed out, with nothing
\* left open) and the ledger holds the history and the balance it came to.
InitReport ==
    /\ engine \in {"core", "legacy"}
    /\ ohlc = FALSE
    /\ quiet = FALSE
    /\ config = NoConfig
    /\ strategy = "any"
    /\ risk_per_trade_usd = RiskPerTradeUsd * 100
    /\ order = NoOrder
    /\ bot = NoBot
    /\ InitStrategy
    /\ bar_index = MaxBars
    /\ pc = IF engine = "core" THEN "report" ELSE "check"
    /\ trade_history \in SeqsUpTo(IF engine = "core" THEN ReportedPositions
                                   ELSE ReportedTrades, MaxReported)
    /\ balance = SumPnl(trade_history) +
                 (IF engine = "core" THEN InitialBalance ELSE LegacyInitialBalance)
    /\ open_positions = <<>>
    /\ current_bar = NoBar
    /\ notified = <<>>
    /\ next_id = 1
    /\ open_trade = NoTrade
    /\ closed_trades = <<>>
    /\ portfolio_history = <<>>
    /\ report = NoReport
    /\ request = "none"
    /\ calls = 0
    /\ last_call = "none"
    /\ prev_call = "none"

NextReport ==
    \/ EngineReport
    \/ LegacyReport

SpecReport == InitReport /\ [][NextReport]_vars

\* ------------------------------------------------------- bot_strategy.py
\* The drivers of the backtest stand still while a bot of the other files runs.
InitDriversIdle ==
    /\ engine = "none"
    /\ ohlc = FALSE
    /\ quiet = FALSE
    /\ config = NoConfig
    /\ strategy = "any"
    /\ risk_per_trade_usd = RiskPerTradeUsd * 100
    /\ balance = InitialBalance
    /\ pc = "none"
    /\ bar_index = 0
    /\ InitStrategy
    /\ order = NoOrder
    /\ InitBroker
    /\ open_trade = NoTrade
    /\ closed_trades = <<>>
    /\ portfolio_history = <<>>
    /\ report = NoReport
    /\ request = "none"
    /\ calls = 0
    /\ last_call = "none"
    /\ prev_call = "none"

\* self.pending_setup = None
NoSetup == [direction |-> "None"]

\* What _check_for_choch_setup and _check_for_bos_setup can leave in
\* pending_setup: the entry at an FVG edge, the stop at a swing point with
\* risk_amount = |entry - sl| > 0 (`if risk_amount <= 0: return`), and the
\* target risk_amount * risk_to_reward beyond the entry.
Setups ==
    {[direction |-> p.direction, entry_price |-> p.entry_price, sl |-> p.sl,
      tp |-> IF p.direction = "BUY"
             THEN p.entry_price + (p.entry_price - p.sl) * RiskToReward
             ELSE p.entry_price - (p.sl - p.entry_price) * RiskToReward] :
        p \in {q \in [direction : OrderTypes, entry_price : Prices, sl : Prices] :
                  IF q.direction = "BUY" THEN q.entry_price - q.sl > 0
                  ELSE q.sl - q.entry_price > 0}}

\* is_invalidated of _manage_pending_setup
IsInvalidated(pending, bar) ==
    \/ pending.direction = "BUY" /\ bar.low <= pending.sl
    \/ pending.direction = "SELL" /\ bar.high >= pending.sl

\* entry_triggered of _manage_pending_setup
EntryTriggered(pending, bar) ==
    \/ pending.direction = "BUY" /\ bar.low <= pending.entry_price
    \/ pending.direction = "SELL" /\ bar.high >= pending.entry_price

\* The order _manage_pending_setup hands to broker.place_market_order.
SetupOrder(pending) ==
    [direction |-> pending.direction, sl |-> pending.sl, tp |-> pending.tp]

\* Mutant of ManagePendingSetup: the entry trigger is tested before the
\* invalidation.
ManagePendingSetupEntryFirst(pending, bar) ==
    IF EntryTriggered(pending, bar)
    THEN [pending_setup |-> NoSetup, placed |-> <<SetupOrder(pending)>>,
          step |-> "executed"]
    ELSE IF IsInvalidated(pending, bar)
    THEN [pending_setup |-> NoSetup, placed |-> <<>>, step |-> "invalidated"]
    ELSE [pending_setup |-> pending, placed |-> <<>>, step |-> "waiting"]

\* BotStrategy._manage_pending_setup(candles, broker): what pending_setup
\* becomes and the orders placed.
ManagePendingSetup(pending, bar) ==
    IF IsInvalidated(pending, bar)
    THEN [pending_setup |-> NoSetup, placed |-> <<>>, step |-> "invalidated"]
    ELSE IF EntryTriggered(pending, bar)
    THEN [pending_setup |-> NoSetup, placed |-> <<SetupOrder(pending)>>,
          step |-> "executed"]
    ELSE [pending_setup |-> pending, placed |-> <<>>, step |-> "waiting"]

\* BotStrategy.on_bar(candles, broker) on the next candle: a pending setup is
\* managed and nothing is searched; without one the two searches run, and they
\* find a setup or none.  setups counts the setups found, and an order
\* remembers the setup it came from.
BotStrategyOnBar ==
    /\ bot.class = "BotStrategy"
    /\ bot.bars < MaxBotBars
    /\ \E bar \in BarsAt(bot.bars + 1) :
         IF bot.pending_setup # NoSetup
         THEN LET managed == ManagePendingSetup(bot.pending_setup, bar)
              IN  bot' = [bot EXCEPT
                            !.bars = bot.bars + 1,
                            !.current_bar = bar,
                            !.pending_setup = managed.pending_setup,
                            !.orders = bot.orders \o
                                [k \in 1..Len(managed.placed) |->
                                    [setup |-> bot.setups,
                                     order |-> managed.placed[k]]],
                            !.step = managed.step]
         ELSE \/ bot' = [bot EXCEPT !.bars = bot.bars + 1,
                                    !.current_bar = bar,
                                    !.step = "searched"]
              \/ \E pending \in Setups :
                   bot' = [bot EXCEPT !.bars = bot.bars + 1,
                                      !.current_bar = bar,
                                      !.pending_setup = pending,
                                      !.setups = bot.setups + 1,
                                      !.step = "found"]
    /\ UNCHANGED backtest

\* After BotStrategy.__init__(risk_to_reward), with a positive ratio.
InitBotStrategy ==
    /\ InitDriversIdle
    /\ bot = [class |-> "BotStrategy", pending_setup |-> NoSetup, bars |-> 0,
              current_bar |-> NoBar, orders |-> <<>>, setups |-> 0,
              step |-> "none"]

NextBotStrategy == BotStrategyOnBar

SpecBotStrategy == InitBotStrategy /\ [][NextBotStrategy]_vars

\* --------------------------- live_ema_pullback_bot.py (KeltnerChannelBot)
\* A closed candle with its indicators: the middle line and the ATR, from
\* which the bands are KC_middle +/- KC_MULTIPLIER * ATR.
KcAtrs == {0, 1}

KcCandles ==
    {c \in [low : Prices, high : Prices, close : Prices, KC_middle : Prices,
            ATR : KcAtrs] : c.low <= c.close /\ c.close <= c.high}

KC_upper(c) == c.KC_middle + KcMultiplier * c.ATR
KC_lower(c) == c.KC_middle - KcMultiplier * c.ATR

\* Where a closed candle lies in its channel: what the record of the run keeps
\* of the candle a WAITING_ENTRY state has read.
NoCandle == [low |-> "None", high |-> "None", close |-> "None"]

Seen(c) ==
    [low |-> IF c.low < KC_lower(c) THEN "below_lower" ELSE "not_below_lower",
     high |-> IF c.high > KC_upper(c) THEN "above_upper" ELSE "not_above_upper",
     close |-> IF c.close > c.KC_middle THEN "above_middle"
               ELSE IF c.close < c.KC_middle THEN "below_middle"
               ELSE "at_middle"]

\* get_forming_candle(): None (no rates) or the forming candle with its
\* middle line.
NoForming == [low |-> NoValue, high |-> NoValue, KC_middle |-> NoValue]

FormingCandles ==
    {f \in [low : Prices, high : Prices, KC_middle : Prices] : f.low <= f.high}
    \cup {NoForming}

\* check_filters for the two directions: with both filters off it passes; with
\* one on it passes or not.
Filters == [BUY : BOOLEAN, SELL : BOOLEAN]

\* The reading of time.time() the model starts from.
ClockOrigin == 1

\* detect_impulse()
DetectImpulse(last, filters) ==
    IF last.high > KC_upper(last) /\ filters.BUY THEN "BUY"
    ELSE IF last.low < KC_lower(last) /\ filters.SELL THEN "SELL"
    ELSE "None"

\* check_pullback_touch_forming(direction)
CheckPullbackTouchForming(direction, forming) ==
    /\ forming # NoForming
    /\ IF direction = "BUY" THEN forming.low <= forming.KC_middle
       ELSE forming.high >= forming.KC_middle

\* check_pullback_stability(direction) at the clock reading `time`
CheckPullbackStability(pullback_touch_time, time) ==
    /\ pullback_touch_time # NoValue
    /\ time - pullback_touch_time >= PullbackStabilitySeconds

\* check_entry_condition(direction)
CheckEntryCondition(direction, last) ==
    IF direction = "BUY" THEN last.close > last.KC_middle
    ELSE last.close < last.KC_middle

\* What the terminal answers to open_position: the tick (None, or the ask or
\* bid price) and the result of order_send (None, a retcode other than DONE,
\* or DONE).
Terminals == [tick : Prices \cup {NoValue}, result : {"None", "REJECTED", "DONE"}]

\* open_position(direction): the request it sends, if it comes to send one, and
\* what it returns.
OpenPosition(direction, last, terminal) ==
    LET entry_price == terminal.tick
        sl_price == IF direction = "BUY"
                    THEN KC_lower(last) - (SlAtrMultiplierTenths * last.ATR) \div 10
                    ELSE KC_upper(last) + (SlAtrMultiplierTenths * last.ATR) \div 10
        sl_distance == Abs(entry_price - sl_price)
        tp_price == IF direction = "BUY"
                    THEN entry_price + RiskToReward * sl_distance
                    ELSE entry_price - RiskToReward * sl_distance
        lot_size == BotCalculateLotSize(RiskPerTradeUsd * 100, sl_distance)
    IN  IF terminal.tick = NoValue
        THEN [sent |-> <<>>, returns |-> FALSE, why |-> "no_tick"]
        ELSE IF lot_size < VolumeMin
        THEN [sent |-> <<>>, returns |-> FALSE, why |-> "lot_below_min"]
        ELSE [sent |-> <<[direction |-> direction, volume |-> lot_size,
                          price |-> entry_price, sl |-> sl_price,
                          tp |-> tp_price, result |-> terminal.result]>>,
              returns |-> terminal.result = "DONE",
              why |-> IF terminal.result = "DONE" THEN "done"
                      ELSE IF terminal.result = "None" THEN "send_none"
                      ELSE "rejected"]

\* What the bot's record of orders gains by an open_position: the direction
\* and the result of each request sent, with the number of the impulse
\* detection it follows.
Sent(opened, impulses) ==
    [k \in 1..Len(opened.sent) |->
        [direction |-> opened.sent[k].direction,
         result |-> opened.sent[k].result, impulse |-> impulses]]

Direction(state) ==
    IF state \in {"IMPULSE_DETECTED_BUY", "PULLBACK_TOUCHED_BUY", "WAITING_ENTRY_BUY"}
    THEN "BUY"
    ELSE IF state \in {"IMPULSE_DETECTED_SELL", "PULLBACK_TOUCHED_SELL",
                       "WAITING_ENTRY_SELL"}
    THEN "SELL"
    ELSE "None"

ImpulseDetected(direction) ==
    IF direction = "BUY" THEN "IMPULSE_DETECTED_BUY" ELSE "IMPULSE_DETECTED_SELL"
PullbackTouched(direction) ==
    IF direction = "BUY" THEN "PULLBACK_TOUCHED_BUY" ELSE "PULLBACK_TOUCHED_SELL"
WaitingEntry(direction) ==
    IF direction = "BUY" THEN "WAITING_ENTRY_BUY" ELSE "WAITING_ENTRY_SELL"

\* The state changes and the bot logs it: log keeps the changes logged since
\* the bot last was in SEARCHING.
Moved(b, state, why) ==
    [b EXCEPT !.state = state,
              !.log = IF state = "SEARCHING" THEN <<>>
                      ELSE Append(b.log, [from |-> b.state, to |-> state,
                                          why |-> why,
                                          new_candle |-> b.new_candle])]

\* Whether the invalidations of a WAITING_ENTRY state send the bot away: the
\* band against the setup first, then the band of the impulse.
AgainstBand(direction, last) ==
    IF direction = "BUY" THEN last.low < KC_lower(last)
    ELSE last.high > KC_upper(last)
ImpulseBand(direction, last) ==
    IF direction = "BUY" THEN last.high > KC_upper(last)
    ELSE last.low < KC_lower(last)

\* Mutant of WaitingEntryOnNewCandle: the entry is tested before the
\* invalidations.
WaitingEntryEntryFirst(b, direction, last, terminal) ==
    LET opened == OpenPosition(direction, last, terminal)
        asked == [b EXCEPT !.orders = b.orders \o Sent(opened, b.impulses),
                           !.opened = opened.why]
    IN  IF CheckEntryCondition(direction, last)
        THEN IF opened.returns
             THEN [bot |-> [Moved(asked, "POSITION_OPEN", "opened") EXCEPT
                               !.pullback_touch_time = NoValue,
                               !.position_ticket = Len(asked.orders)],
                   returned |-> FALSE]
             ELSE [bot |-> [Moved(asked, "SEARCHING", "open_failed") EXCEPT
                               !.pullback_touch_time = NoValue],
                   returned |-> FALSE]
        ELSE IF AgainstBand(direction, last)
        THEN [bot |-> [Moved(b, "SEARCHING", "reset") EXCEPT
                          !.pullback_touch_time = NoValue],
              returned |-> TRUE]
        ELSE IF ImpulseBand(direction, last)
        THEN [bot |-> [Moved(b, ImpulseDetected(direction), "reset_to_impulse")
                          EXCEPT !.pullback_touch_time = NoValue],
              returned |-> TRUE]
        ELSE [bot |-> b, returned |-> FALSE]

\* Mutant of WaitingEntryOnNewCandle: after a failed open_position the bot
\* stays where it is.
WaitingEntryRetries(b, direction, last, terminal) ==
    LET opened == OpenPosition(direction, last, terminal)
        asked == [b EXCEPT !.orders = b.orders \o Sent(opened, b.impulses),
                           !.opened = opened.why]
    IN  IF AgainstBand(direction, last)
        THEN [bot |-> [Moved(b, "SEARCHING", "reset") EXCEPT
                          !.pullback_touch_time = NoValue],
              returned |-> TRUE]
        ELSE IF ImpulseBand(direction, last)
        THEN [bot |-> [Moved(b, ImpulseDetected(direction), "reset_to_impulse")
                          EXCEPT !.pullback_touch_time = NoValue],
              returned |-> TRUE]
        ELSE IF CheckEntryCondition(direction, last)
        THEN IF opened.returns
             THEN [bot |-> [Moved(asked, "POSITION_OPEN", "opened") EXCEPT
                               !.pullback_touch_time = NoValue,
                               !.position_ticket = Len(asked.orders)],
                   returned |-> FALSE]
             ELSE [bot |-> asked, returned |-> FALSE]
        ELSE [bot |-> b, returned |-> FALSE]

\* run_iteration, the WAITING_ENTRY_BUY / WAITING_ENTRY_SELL branch of a new
\* candle: the two invalidations, each with its return, then the entry.
WaitingEntryOnNewCandle(b, direction, last, terminal) ==
    LET opened == OpenPosition(direction, last, terminal)
        asked == [b EXCEPT !.orders = b.orders \o Sent(opened, b.impulses),
                           !.opened = opened.why]
    IN  IF AgainstBand(direction, last)
        THEN [bot |-> [Moved(b, "SEARCHING", "reset") EXCEPT
                          !.pullback_touch_time = NoValue],
              returned |-> TRUE]
        ELSE IF ImpulseBand(direction, last)
        THEN [bot |-> [Moved(b, ImpulseDetected(direction), "reset_to_impulse")
                          EXCEPT !.pullback_touch_time = NoValue],
              returned |-> TRUE]
        ELSE IF CheckEntryCondition(direction, last)
        THEN IF opened.returns
             THEN [bot |-> [Moved(asked, "POSITION_OPEN", "opened") EXCEPT
                               !.pullback_touch_time = NoValue,
                               !.position_ticket = Len(asked.orders)],
                   returned |-> FALSE]
             ELSE [bot |-> [Moved(asked, "SEARCHING", "open_failed") EXCEPT
                               !.pullback_touch_time = NoValue],
                   returned |-> FALSE]
        ELSE [bot |-> b, returned |-> FALSE]

\* Whether the new-candle block comes to call open_position, and so to ask
\* the terminal.
Opens(state, last) ==
    /\ state \in {"WAITING_ENTRY_BUY", "WAITING_ENTRY_SELL"}
    /\ ~AgainstBand(Direction(state), last)
    /\ ~ImpulseBand(Direction(state), last)
    /\ CheckEntryCondition(Direction(state), last)

\* What detect_impulse() can return on a closed candle.
ImpulseDirs ==
    {DetectImpulse(last, filters) : last \in KcCandles, filters \in Filters}

\* Mutant of SearchingOnNewCandle: an impulse takes the bot straight to the
\* entry wait.
SearchingStraightToEntry(b, impulse_dir) ==
    IF impulse_dir = "None" THEN b
    ELSE [Moved(b, WaitingEntry(impulse_dir), "impulse") EXCEPT
             !.pullback_touch_time = ClockOrigin,
             !.impulses = b.impulses + 1]

\* run_iteration, the SEARCHING branch of a new candle, detect_impulse()
\* having returned impulse_dir.
SearchingOnNewCandle(b, impulse_dir) ==
    IF impulse_dir = "None" THEN b
    ELSE [Moved(b, ImpulseDetected(impulse_dir), "impulse") EXCEPT
             !.pullback_touch_time = NoValue,
             !.impulses = b.impulses + 1]

\* run_iteration, the WAITING_ENTRY branches of the block of the states that
\* process on a new candle.
OnNewCandle(b, last, terminal) ==
    IF b.state \in {"WAITING_ENTRY_BUY", "WAITING_ENTRY_SELL"}
    THEN WaitingEntryOnNewCandle(b, Direction(b.state), last, terminal)
    ELSE [bot |-> b, returned |-> FALSE]

\* Mutant of OnEveryIteration: a lost touch keeps the time of the touch.
OnEveryIterationKeepsTouchTime(b, forming, time) ==
    LET direction == Direction(b.state)
        touching == CheckPullbackTouchForming(direction, forming)
    IN  IF b.state \in {"IMPULSE_DETECTED_BUY", "IMPULSE_DETECTED_SELL"}
        THEN IF touching /\ b.pullback_touch_time = NoValue
             THEN [Moved(b, PullbackTouched(direction), "touch") EXCEPT
                      !.pullback_touch_time = time]
             ELSE b
        ELSE IF b.state \in {"PULLBACK_TOUCHED_BUY", "PULLBACK_TOUCHED_SELL"}
        THEN IF ~touching
             THEN Moved(b, ImpulseDetected(direction), "lost_touch")
             ELSE IF CheckPullbackStability(b.pullback_touch_time, time)
             THEN Moved(b, WaitingEntry(direction), "stable")
             ELSE b
        ELSE b

\* run_iteration, the block of the states that process on every iteration,
\* with the forming candle, at the clock reading `time`.
OnEveryIteration(b, forming, time) ==
    LET direction == Direction(b.state)
        touching == CheckPullbackTouchForming(direction, forming)
    IN  IF b.state \in {"IMPULSE_DETECTED_BUY", "IMPULSE_DETECTED_SELL"}
        THEN IF touching /\ b.pullback_touch_time = NoValue
             THEN [Moved(b, PullbackTouched(direction), "touch") EXCEPT
                      !.pullback_touch_time = time]
             ELSE b
        ELSE IF b.state \in {"PULLBACK_TOUCHED_BUY", "PULLBACK_TOUCHED_SELL"}
        THEN IF ~touching
             THEN [Moved(b, ImpulseDetected(direction), "lost_touch") EXCEPT
                      !.pullback_touch_time = NoValue]
             ELSE IF CheckPullbackStability(b.pullback_touch_time, time)
             THEN Moved(b, WaitingEntry(direction), "stable")
             ELSE b
        ELSE b

\* check_position_status(): positions_get finds the ticket or not.
CheckPositionStatus(b, found) == b.position_ticket # NoValue /\ found

\* The states in which run_iteration reads the closed candle, the forming
\* candle.
ReadsClosedCandle(state) ==
    state \in {"SEARCHING", "WAITING_ENTRY_BUY", "WAITING_ENTRY_SELL"}
ReadsFormingCandle(state) ==
    state \in {"IMPULSE_DETECTED_BUY", "IMPULSE_DETECTED_SELL",
               "PULLBACK_TOUCHED_BUY", "PULLBACK_TOUCHED_SELL"}

\* The rest of run_iteration after the block of the new candle, at the clock
\* reading `time`.
ThenEveryIteration(b, time) ==
    IF ReadsFormingCandle(b.state)
    THEN bot' \in {OnEveryIteration(b, forming, time) : forming \in FormingCandles}
    ELSE bot' = b

\* time.time() `elapsed` seconds after the reading before.  Only the time since
\* pullback_touch_time is ever read, and only against the stability period:
\* the clock stands at its origin while no touch is timed and is not read
\* beyond the stability period after it.
TimeAfter(b, elapsed) ==
    IF b.pullback_touch_time = NoValue THEN ClockOrigin
    ELSE Min(b.now + elapsed, b.pullback_touch_time + PullbackStabilitySeconds)

\* One turn of the loop of run(): update_data() says whether there is a new
\* candle, and run_iteration(new_candle) runs, `elapsed` seconds after the
\* turn before.  The closed candle is kept where a WAITING_ENTRY state reads it.
RunIteration ==
    /\ bot.class = "KeltnerChannelBot"
    /\ bot.iterations < MaxIterations
    /\ \E new_candle \in BOOLEAN,
          elapsed \in IF bot.pullback_touch_time = NoValue THEN {1}
                      ELSE {1, PullbackStabilitySeconds} :
         LET time == TimeAfter(bot, elapsed)
             b == [bot EXCEPT !.iterations = bot.iterations + 1,
                              !.now = time,
                              !.new_candle = new_candle,
                              !.last = NoCandle,
                              !.opened = "none"]
         IN  IF bot.state = "POSITION_OPEN"
             THEN \E found \in BOOLEAN :
                    IF ~CheckPositionStatus(b, found)
                    THEN bot' = [Moved(b, "SEARCHING", "closed") EXCEPT
                                    !.position_ticket = NoValue,
                                    !.pullback_touch_time = NoValue]
                    ELSE bot' = b
             ELSE IF new_candle /\ bot.state = "SEARCHING"
             THEN \E impulse_dir \in ImpulseDirs :
                    ThenEveryIteration(SearchingOnNewCandle(b, impulse_dir), time)
             ELSE IF new_candle /\ ReadsClosedCandle(bot.state)
             THEN \E processed \in
                        UNION {{OnNewCandle([b EXCEPT !.last = Seen(last)], last,
                                            terminal) :
                                   terminal \in IF Opens(bot.state, last)
                                                THEN Terminals
                                                ELSE {[tick |-> NoValue,
                                                       result |-> "None"]}} :
                               last \in KcCandles} :
                    IF processed.returned THEN bot' = processed.bot
                    ELSE ThenEveryIteration(processed.bot, time)
             ELSE ThenEveryIteration(b, time)
    /\ UNCHANGED backtest

\* After KeltnerChannelBot.__init__ and load_initial_data.
InitKeltner ==
    /\ InitDriversIdle
    /\ bot = [class |-> "KeltnerChannelBot", state |-> "SEARCHING",
              pullback_touch_time |-> NoValue, position_ticket |-> NoValue,
              now |-> ClockOrigin, iterations |-> 0, new_candle |-> FALSE,
              last |-> NoCandle, opened |-> "none", impulses |-> 0,
              log |-> <<>>, orders |-> <<>>]

NextKeltner == RunIteration

SpecKeltner == InitKeltner /\ [][NextKeltner]_vars

\* ------------------------------ keltner_pullback_bot.py (LiveKeltnerBot)
\* A closed candle of the two-state bot with its indicators; its bands are
\* KC_middle +/- KC_MULTIPLIER * ATR with KC_MULTIPLIER = 1.5, whole for the
\* even ATR values drawn here.
LiveAtrs == {0, 2}

LiveCandles ==
    {c \in [low : Prices, high : Prices, close : Prices, KC_middle : Prices,
            ATR : LiveAtrs] : c.low <= c.close /\ c.close <= c.high}

LiveKC_upper(c) == c.KC_middle + (LiveKcMultiplierTenths * c.ATR) \div 10
LiveKC_lower(c) == c.KC_middle - (LiveKcMultiplierTenths * c.ATR) \div 10

\* detect_impulse_closed(): the direction it returns; with a direction it
\* also stores the candle's time in impulse_candle_time.
DetectImpulseClosed(last, filters) ==
    IF last.high >= LiveKC_upper(last) /\ filters.BUY THEN "BUY"
    ELSE IF last.low <= LiveKC_lower(last) /\ filters.SELL THEN "SELL"
    ELSE "None"

\* The pullback test of check_pullback_and_entry_closed(direction), after its
\* check of the distance: the middle line touched and the close back on the
\* side of the impulse.
PullbackEntry(direction, last) ==
    IF direction = "BUY"
    THEN last.low <= last.KC_middle /\ last.close > last.KC_middle
    ELSE last.high >= last.KC_middle /\ last.close < last.KC_middle

\* open_position(direction) of the two-state bot.
LiveOpenPosition(direction, last, terminal) ==
    LET entry_price == terminal.tick
        sl_price == IF direction = "BUY"
                    THEN LiveKC_lower(last) - (SlAtrMultiplierTenths * last.ATR) \div 10
                    ELSE LiveKC_upper(last) + (SlAtrMultiplierTenths * last.ATR) \div 10
        sl_distance == Abs(entry_price - sl_price)
        lot_size == BotCalculateLotSize(LiveRiskUsd * 100, sl_distance)
    IN  IF terminal.tick = NoValue THEN "no_tick"
        ELSE IF lot_size < VolumeMin THEN "lot_below_min"
        ELSE IF terminal.result = "DONE" THEN "done"
        ELSE IF terminal.result = "None" THEN "send_none"
        ELSE "rejected"

\* open_position came to call order_send / returned True.
OrderSent(why) == why \in {"done", "send_none", "rejected"}
OrderDone(why) == why = "done"

\* All that process_strategy reads of a closed candle, of the filters and of
\* the terminal in one call.
Reading(last, filters, terminal) ==
    [low_at_lower |-> last.low <= LiveKC_lower(last),
     high_at_upper |-> last.high >= LiveKC_upper(last),
     impulse |-> DetectImpulseClosed(last, filters),
     entry |-> [d \in {"BUY", "SELL"} |-> PullbackEntry(d, last)],
     opened |-> [d \in {"BUY", "SELL"} |-> LiveOpenPosition(d, last, terminal)]]

LiveReadings ==
    UNION {UNION {{Reading(last, filters, terminal) : terminal \in Terminals} :
                     filters \in Filters} : last \in LiveCandles}

NoReading ==
    [low_at_lower |-> FALSE, high_at_upper |-> FALSE, impulse |-> "None",
     entry |-> [d \in {"BUY", "SELL"} |-> FALSE],
     opened |-> [d \in {"BUY", "SELL"} |-> "no_tick"]]

\* Impulse tracking cleared: impulse_direction = None, impulse_candle_time =
\* None.  `established` is the candle at which impulse_direction took the
\* value it has.
ImpulseCleared(b) ==
    [b EXCEPT !.impulse_direction = "None", !.impulse_candle_time = NoValue,
              !.established = NoValue]

\* The impulse candle is still a row of the frame, which keeps the latest
\* rows only.
ImpulseInFrame(b) == b.candles - b.impulse_candle_time < FrameRows

\* check_pullback_and_entry_closed(direction)
CheckPullbackAndEntryClosed(b, direction, reading) ==
    IF b.impulse_candle_time # NoValue /\ ~ImpulseInFrame(b)
    THEN [bot |-> ImpulseCleared(b), returns |-> FALSE]
    ELSE IF /\ b.impulse_candle_time # NoValue
            /\ b.candles - b.impulse_candle_time < MinPullbackDistance
    THEN [bot |-> b, returns |-> FALSE]
    ELSE [bot |-> b, returns |-> reading.entry[direction]]

\* recover_data(), from its reset of the state on: the impulse is cleared and
\* the state is SEARCHING unless a position is open.
RecoverDataResetsState(b) ==
    [ImpulseCleared(b) EXCEPT !.state = "SEARCHING"]

RecoverData(b) ==
    [ImpulseCleared(b) EXCEPT
        !.state = IF b.state # "POSITION_OPEN" THEN "SEARCHING" ELSE b.state]

\* heartbeat(): "passed" returns True and changes nothing (not due, all well,
\* market closed), "failed" returns False and changes nothing (no connection,
\* or recover_data giving up before its reset), "recovered" and
\* "recover_failed" are a data freeze with recover_data resetting the state
\* and load_initial_data succeeding or not.
Heartbeats == {"passed", "failed", "recovered", "recover_failed"}

Heartbeat(b, heartbeat) ==
    IF heartbeat \in {"recovered", "recover_failed"} THEN RecoverData(b) ELSE b

HeartbeatReturns(heartbeat) == heartbeat \in {"passed", "recovered"}

\* update_data(): a new closed candle is one more row of the frame.
UpdateData(b, new_candle) ==
    IF new_candle THEN [b EXCEPT !.candles = b.candles + 1, !.new_candle = TRUE]
    ELSE b

\* Step 1 of the SEARCHING part of process_strategy: an impulse against the
\* tracked one turns the direction and clears impulse_candle_time.
OppositeImpulse(b, reading) ==
    IF b.impulse_direction = "BUY" /\ reading.low_at_lower
    THEN [b EXCEPT !.impulse_direction = "SELL", !.impulse_candle_time = NoValue,
                   !.established = b.candles]
    ELSE IF b.impulse_direction = "SELL" /\ reading.high_at_upper
    THEN [b EXCEPT !.impulse_direction = "BUY", !.impulse_candle_time = NoValue,
                   !.established = b.candles]
    ELSE b

\* Step 3: with an impulse, the pullback entry and open_position.  The record
\* of orders gains each request sent, with the candle it is sent after and the
\* candle that established its direction.
PullbackAndEntry(b, reading) ==
    LET direction == b.impulse_direction
        checked == CheckPullbackAndEntryClosed(b, direction, reading)
        why == reading.opened[direction]
        sent == IF OrderSent(why)
                THEN <<[direction |-> direction, candle |-> b.candles,
                        established |-> b.established, result |-> why]>>
                ELSE <<>>
    IN  IF ~checked.returns THEN checked.bot
        ELSE IF OrderDone(why)
        THEN [ImpulseCleared(b) EXCEPT !.state = "POSITION_OPEN",
                                       !.opened = why,
                                       !.orders = b.orders \o sent]
        ELSE [ImpulseCleared(b) EXCEPT !.opened = why,
                                       !.orders = b.orders \o sent]

\* process_strategy(new_candle), `found` being what check_position_status
\* returns.
ProcessStrategy(b, new_candle, reading, found) ==
    IF b.state = "POSITION_OPEN"
    THEN IF ~found
         THEN [ImpulseCleared(b) EXCEPT !.state = "SEARCHING", !.found = "no"]
         ELSE [b EXCEPT !.found = "yes"]
    ELSE IF ~new_candle THEN b
    ELSE LET turned == OppositeImpulse(b, reading)
         IN  IF turned.impulse_direction = "None" /\ reading.impulse # "None"
             THEN [turned EXCEPT !.impulse_direction = reading.impulse,
                                 !.impulse_candle_time = b.candles,
                                 !.established = b.candles]
             ELSE IF turned.impulse_direction # "None"
             THEN PullbackAndEntry(turned, reading)
             ELSE turned

\* One turn of the loop of run(): heartbeat(), and if it returns True
\* update_data() and process_strategy(new_candle).
LiveIteration ==
    /\ bot.class = "LiveKeltnerBot"
    /\ \E heartbeat \in Heartbeats :
         LET b == Heartbeat([bot EXCEPT !.heartbeat = heartbeat,
                                        !.new_candle = FALSE,
                                        !.found = "none",
                                        !.opened = "none"], heartbeat)
         IN  IF ~HeartbeatReturns(heartbeat) THEN bot' = b
             ELSE \E new_candle \in IF bot.candles < MaxLiveCandles THEN BOOLEAN
                                    ELSE {FALSE} :
                    bot' \in {ProcessStrategy(UpdateData(b, new_candle),
                                              new_candle, reading, found) :
                                 reading \in IF new_candle /\ b.state = "SEARCHING"
                                             THEN LiveReadings ELSE {NoReading},
                                 found \in IF b.state = "POSITION_OPEN"
                                           THEN BOOLEAN ELSE {TRUE}}
    /\ UNCHANGED backtest

\* After LiveKeltnerBot.__init__ and initialize().
InitLiveKeltner ==
    /\ InitDriversIdle
    /\ bot = [class |-> "LiveKeltnerBot", state |-> "SEARCHING",
              impulse_direction |-> "None", impulse_candle_time |-> NoValue,
              established |-> NoValue, candles |-> 0, new_candle |-> FALSE,
              heartbeat |-> "none", found |-> "none", opened |-> "none",
              orders |-> <<>>]

NextLiveKeltner == LiveIteration

SpecLiveKeltner == InitLiveKeltner /\ [][NextLiveKeltner]_vars

\* ------------------------------------------------------- choch_bot_v2.py
\* The tickets of the limit orders of the setup with magic number `magic`,
\* in the order they are placed; magic numbers are 1, 2, ... in the order of
\* the setups.
TicketOf(magic, k) == NumScaleInOrders * (magic - 1) + k
MagicOf(ticket) == (ticket - 1) \div NumScaleInOrders + 1
WithMagic(orders, magic) == {t \in orders : MagicOf(t) = magic}

\* The tickets of a set as orders_get lists them.
InOrder(S) ==
    CHOOSE seq \in [1..Cardinality(S) -> S] :
        \A i, j \in 1..Cardinality(S) : i < j => seq[i] < seq[j]

\* active_setup = {}
NoActiveSetup == [magic_number |-> NoValue]

\* detect_significant_structure(df): None or a signal, its two prices being
\* pivots of the zigzag (two levels here).
NoChoch == [type |-> "None"]
ChochLevels == {2, 3}
ChochSignals ==
    [type : {"BULLISH_CHOCH", "BEARISH_CHOCH"}, signal_price : ChochLevels,
     sl_price : ChochLevels]

\* df['atr'].iloc[-1]
ChochAtrs == {0, 1}

\* What the terminal answers: order_send returns None, a result with a
\* retcode other than DONE, or a result with DONE.
SendResults == {"None", "REJECTED", "DONE"}

\* calculate_lot_size_robust(symbol, risk_usd, avg_entry_price, sl_price)
\* with prices in quarters of a point: None (NoValue) without symbol info,
\* with a zero stop distance or without a tick, else the lot rounded to the
\* volume step and not below volume_min.
CalculateLotSizeRobust(avg_entry_price, sl_price, symbol_info, tick) ==
    LET sl_points == Abs(avg_entry_price - sl_price)
    IN  IF ~symbol_info THEN NoValue
        ELSE IF sl_points = 0 THEN NoValue
        ELSE IF tick = NoValue THEN NoValue
        ELSE LET lot_size == RoundHalfEven(ChochRiskUsd * 100,
                                           sl_points * tick * VolumeStep)
                             * VolumeStep
             IN  IF lot_size < VolumeMin THEN VolumeMin ELSE lot_size

\* The loop over entry_prices with place_limit_order_robust: order_send
\* returning None raises at result.retcode and ends the handler; a retcode
\* other than DONE gives no ticket; DONE gives the ticket.
PlaceOrders(magic, results) ==
    LET nones == {k \in 1..NumScaleInOrders : results[k] = "None"}
        raised_at == IF nones = {} THEN 0
                     ELSE CHOOSE k \in nones : \A n \in nones : k <= n
        sent == IF raised_at = 0 THEN 1..NumScaleInOrders ELSE 1..raised_at
    IN  [placed_tickets |-> {TicketOf(magic, k) : k \in {n \in sent : results[n] = "DONE"}},
         raised |-> raised_at # 0]

\* A loop of cancel_pending_order over tickets: each order_send with DONE
\* removes the order, one returning None raises at result.retcode and ends
\* the handler.
CancelOrders(tickets, results) ==
    LET seq == InOrder(tickets)
        nones == {k \in 1..Len(seq) : results[k] = "None"}
        raised_at == IF nones = {} THEN 0
                     ELSE CHOOSE k \in nones : \A n \in nones : k <= n
        sent == IF raised_at = 0 THEN 1..Len(seq) ELSE 1..raised_at
    IN  [issued |-> {seq[k] : k \in sent},
         removed |-> {seq[k] : k \in {n \in sent : results[n] = "DONE"}},
         raised |-> raised_at # 0]

CancelResults(tickets) == [1..Cardinality(tickets) -> SendResults]

\* handle_searching_state(): what it leaves of the bot, given the signal,
\* the lot computed and the answers of the terminal.
HandleSearchingState(b, choch, total_lot_size, results, cancel_results) ==
    LET magic_number == b.setups + 1
        placing == PlaceOrders(magic_number, results)
        placed_tickets == placing.placed_tickets
        cancelling == CancelOrders(placed_tickets, cancel_results)
        h == [b EXCEPT !.handled = "searching"]
    IN  IF choch = NoChoch THEN h
        ELSE IF total_lot_size = NoValue \/ total_lot_size = 0 THEN h
        ELSE IF placing.raised
        THEN [h EXCEPT !.setups = magic_number,
                       !.pending = b.pending \cup placed_tickets,
                       !.placed = placed_tickets,
                       !.raised = TRUE]
        ELSE IF Cardinality(placed_tickets) = NumScaleInOrders
        THEN [h EXCEPT !.setups = magic_number,
                       !.pending = b.pending \cup placed_tickets,
                       !.placed = placed_tickets,
                       !.state = "SCALING_IN",
                       !.active_setup =
                           [magic_number |-> magic_number,
                            type |-> choch.type,
                            signal_price |-> choch.signal_price,
                            sl_price |-> choch.sl_price,
                            pending_tickets |-> InOrder(placed_tickets)]]
        ELSE [h EXCEPT !.setups = magic_number,
                       !.pending = (b.pending \cup placed_tickets)
                                   \ cancelling.removed,
                       !.placed = placed_tickets,
                       !.cancels = cancelling.issued,
                       !.raised = cancelling.raised]

\* The lot handle_searching_state computes for a signal: the entry zone runs
\* from the signal price over SCALE_IN_ZONE_ATR_MULTIPLIER * ATR, the average
\* of its linspace is its middle (here in quarters of a point).
TotalLotSize(choch, atr, symbol_info, tick) ==
    LET avg_entry_price == IF choch.type = "BULLISH_CHOCH"
                           THEN 4 * choch.signal_price - (ScaleInZoneAtrMultiplierTenths * atr * 2) \div 10
                           ELSE 4 * choch.signal_price + (ScaleInZoneAtrMultiplierTenths * atr * 2) \div 10
    IN  CalculateLotSizeRobust(avg_entry_price, 4 * choch.sl_price, symbol_info, tick)

\* pullback_deep of handle_scaling_in_state
PullbackDeep(active, current_price, current_atr) ==
    IF active.type = "BULLISH_CHOCH"
    THEN 10 * (active.signal_price - current_price) > PullbackDepthAtrMultiplierTenths * current_atr
    ELSE 10 * (current_price - active.signal_price) > PullbackDepthAtrMultiplierTenths * current_atr

\* handle_scaling_in_state(): `tick` is symbol_info_tick (None raises),
\* `listed_deep` and `listed` say whether the two calls of orders_get return
\* the orders or None.
HandleScalingInState(b, tick, current_atr, listed_deep, listed, cancel_results) ==
    LET magic == b.active_setup.magic_number
        h == [b EXCEPT !.handled = "scaling",
                       !.listed = WithMagic(b.pending, magic)]
        orders == IF listed_deep THEN WithMagic(b.pending, magic) ELSE {}
        cancelling == CancelOrders(orders, cancel_results)
        all_orders == IF listed THEN b.pending ELSE {}
        remaining_pending_tickets ==
            SelectSeq(b.active_setup.pending_tickets, LAMBDA t : t \in all_orders)
    IN  IF b.active_setup = NoActiveSetup THEN [h EXCEPT !.state = "SEARCHING"]
        ELSE IF tick = NoValue THEN [h EXCEPT !.raised = TRUE]
        ELSE IF PullbackDeep(b.active_setup, tick, current_atr)
        THEN IF cancelling.raised
             THEN [h EXCEPT !.deep = TRUE,
                            !.pending = b.pending \ cancelling.removed,
                            !.cancels = cancelling.issued,
                            !.raised = TRUE]
             ELSE [h EXCEPT !.deep = TRUE,
                            !.pending = b.pending \ cancelling.removed,
                            !.cancels = cancelling.issued,
                            !.active_setup = NoActiveSetup,
                            !.state = "SEARCHING"]
        ELSE IF remaining_pending_tickets = <<>>
        THEN [h EXCEPT !.active_setup = NoActiveSetup, !.state = "SEARCHING"]
        ELSE [h EXCEPT !.active_setup.pending_tickets = remaining_pending_tickets]

\* Whether handle_searching_state gets a lot to trade for a signal (neither
\* None nor 0), over the ATR values and the answers of the terminal.
LotsUsable(choch) ==
    UNION {UNION {{LET total_lot_size == TotalLotSize(choch, atr, symbol_info, tick)
                   IN  ~(total_lot_size = NoValue \/ total_lot_size = 0) :
                      tick \in Prices \cup {NoValue}} :
                     symbol_info \in BOOLEAN} : atr \in ChochAtrs}

AllDone == [k \in 1..NumScaleInOrders |-> "DONE"]

\* The new candle in SEARCHING: handle_searching_state() over the signals and
\* the answers of the terminal, each drawn where the handler reads it.
SearchingOnNewCandleChoch(b) ==
    \E choch \in IF b.setups < MaxChochSetups THEN ChochSignals \cup {NoChoch}
                  ELSE {NoChoch} :
       IF choch = NoChoch
       THEN bot' = HandleSearchingState(b, choch, NoValue, AllDone, <<>>)
       ELSE \E usable \in LotsUsable(choch) :
              IF ~usable
              THEN bot' = HandleSearchingState(b, choch, NoValue, AllDone, <<>>)
              ELSE \E results \in [1..NumScaleInOrders -> SendResults] :
                     bot' \in {HandleSearchingState(b, choch, VolumeMin, results,
                                                    cancel_results) :
                                  cancel_results \in
                                      IF results = AllDone THEN {<<>>}
                                      ELSE CancelResults(
                                               PlaceOrders(b.setups + 1,
                                                           results).placed_tickets)}

\* The new candle in SCALING_IN: handle_scaling_in_state() over the answers
\* of the terminal, each drawn where the handler reads it.
ScalingInOnNewCandle(b) ==
    \E tick \in Prices \cup {NoValue}, current_atr \in ChochAtrs :
       IF tick = NoValue
       THEN bot' = HandleScalingInState(b, tick, current_atr, TRUE, TRUE, <<>>)
       ELSE IF PullbackDeep(b.active_setup, tick, current_atr)
       THEN \E listed_deep \in BOOLEAN :
              bot' \in {HandleScalingInState(b, tick, current_atr, listed_deep,
                                             TRUE, cancel_results) :
                           cancel_results \in
                               CancelResults(IF listed_deep
                                             THEN WithMagic(b.pending,
                                                            b.active_setup.magic_number)
                                             ELSE {})}
       ELSE \E listed \in BOOLEAN :
              bot' = HandleScalingInState(b, tick, current_atr, TRUE, listed, <<>>)

\* One turn of the loop of main(): since the turn before, pending orders of
\* the active setup may have been filled or have expired (orders of no active
\* setup are followed no further); update_dataframe() says whether there is a
\* new candle, and on a new candle the handler of the state runs.  What a
\* handler raises is caught by the loop.
ChochMainLoop ==
    /\ bot.class = "ChochBot"
    /\ \E gone \in SUBSET WithMagic(bot.pending, bot.active_setup.magic_number),
          is_new_candle \in IF bot.candles < MaxChochCandles THEN BOOLEAN
                           ELSE {FALSE} :
         LET b == [bot EXCEPT !.pending = bot.pending \ gone,
                              !.candles = IF is_new_candle THEN bot.candles + 1
                                          ELSE bot.candles,
                              !.handled = "none", !.raised = FALSE,
                              !.placed = {}, !.cancels = {}, !.listed = {},
                              !.deep = FALSE]
         IN  IF ~is_new_candle THEN bot' = b
             ELSE IF bot.state = "SEARCHING" THEN SearchingOnNewCandleChoch(b)
             ELSE ScalingInOnNewCandle(b)
    /\ UNCHANGED backtest

\* The globals of the module when main() starts.
InitChoch ==
    /\ InitDriversIdle
    /\ bot = [class |-> "ChochBot", state |-> "SEARCHING",
              active_setup |-> NoActiveSetup, pending |-> {}, setups |-> 0,
              candles |-> 0, handled |-> "none", raised |-> FALSE,
              placed |-> {}, cancels |-> {}, listed |-> {}, deep |-> FALSE]

NextChoch == ChochMainLoop

SpecChoch == InitChoch /\ [][NextChoch]_vars

\* ------------------------------------------------------ reading the state
Legacy == engine = "legacy"

\* The open positions of whichever ledger runs, as a sequence.
OpenNow == IF Legacy
           THEN IF open_trade = NoTrade THEN <<>> ELSE <<open_trade>>
           ELSE open_positions

OpenCount == Len(OpenNow)

\* Field names differ between the two ledgers.
StopOf(p) == IF Legacy THEN p.sl ELSE p.sl_price
TargetOf(p) == IF Legacy THEN p.tp ELSE p.tp_price
ExitPriceOf(p) == IF Legacy THEN p.exit_price ELSE p.close_price
ExitTimeOf(p) == IF Legacy THEN p.exit_time ELSE p.close_time

\* What trade_history gained in this step.
NewlyInHistory == SubSeq(trade_history', Len(trade_history) + 1, Len(trade_history'))

\* The steps of the drivers' loops.
CheckStep == pc = "check" /\ pc' = "on_bar"
OnBarStep == pc = "on_bar" /\ pc' = "check"
CloseAllStep == pc = "check" /\ pc' = "report"

\* Both price levels lie within the bar's [low, high] range.
BothWithin(bar, p) ==
    /\ bar.low <= StopOf(p) /\ StopOf(p) <= bar.high
    /\ bar.low <= TargetOf(p) /\ TargetOf(p) <= bar.high

\* --------------------------------------------------------------- claims

\* C1: the ledger holds at most one open position in every state of a run, and
\* a position enters the open set only in the step that handles its own order
\* (on an empty open set, with a fresh identity): an order that arrives while a
\* position is open opens nothing then and nothing later.
C1_AtMostOneOpen ==
    /\ [](OpenCount <= 1)
    /\ [][IdSet(OpenNow') # IdSet(OpenNow) /\ OpenNow' # <<>>
            => /\ OnBarStep
               /\ request' = "order"
               /\ OpenNow = <<>>
               /\ IdSet(OpenNow') = {next_id}]_vars

\* C1 witness: an order arrived on a bar later than the one the open position
\* was opened on, and that position is still the only one.
C1_Witness ==
    /\ pc = "check"
    /\ request = "order"
    /\ OpenCount = 1
    /\ OpenNow[1].entry_time < bar_index

\* C2: in a check step, every open position (long or short) whose stop and
\* target both lie within the bar's [low, high] range is closed at its stop
\* price (the legacy ledger marks it a Loss) and leaves the open set.
C2_StopBeforeTarget ==
    [][CheckStep =>
        \A k \in 1..Len(OpenNow) :
            LET p == OpenNow[k]
            IN  BothWithin(current_bar', p) =>
                    /\ p.id \notin IdSet(OpenNow')
                    /\ \E j \in 1..Len(NewlyInHistory) :
                           LET c == NewlyInHistory[j]
                           IN  /\ c.id = p.id
                               /\ ExitPriceOf(c) = StopOf(p)
                               /\ ExitPriceOf(c) # TargetOf(p)
                               /\ Legacy => c.result = "Loss"]_vars

\* C2 witness: the last bar checked held both levels of a position it closed.
C2_Witness ==
    /\ pc = "on_bar"
    /\ trade_history # <<>>
    /\ LET c == trade_history[Len(trade_history)]
       IN  /\ ExitTimeOf(c) = current_bar.name
           /\ BothWithin(current_bar, c)

\* C3: every step adds to the balance exactly the realized PnL of the positions
\* it closes (those it appends to the trade history and those close_all
\* returns), and when the run is over the realized PnL of all closed positions
\* sums to final balance minus initial balance.
ClosedByCloseAll == IF CloseAllStep THEN closed_trades' ELSE <<>>

AllClosed == IF Legacy THEN trade_history ELSE portfolio_history

StartBalance == IF Legacy THEN LegacyInitialBalance ELSE InitialBalance

C3_BalanceIsSumOfPnl ==
    /\ [][balance' = balance + SumPnl(NewlyInHistory) + SumPnl(ClosedByCloseAll)]_vars
    /\ [](pc = "done" => SumPnl(AllClosed) = balance - StartBalance)

\* C3 witness: a finished run of the core engine that closed one position by
\* check and one at end of data, with a balance that moved.
C3_Witness ==
    /\ pc = "done"
    /\ ~Legacy
    /\ trade_history # <<>>
    /\ closed_trades # <<>>
    /\ balance # InitialBalance

\* C4: when a driver has finished, its ledger holds no open position.  The
\* legacy driver BacktestBroker.run has no close_all and breaks this.
C4_NoOpenPositionAtEnd == pc = "done" => OpenCount = 0

\* C4, the core driver alone: BacktestEngine.run ends with an empty open set,
\* what was still open having been closed at the final bar's close.
C4_CoreEngineEndsFlat ==
    (pc = "done" /\ ~Legacy) =>
        /\ open_positions = <<>>
        /\ \A k \in 1..Len(closed_trades) :
               /\ closed_trades[k].close_price = current_bar.close
               /\ closed_trades[k].close_time = bar_index

\* C5: when BacktestEngine.run is over, the history the portfolio reports on
\* holds every position ever opened (identities 1 .. next_id - 1) exactly once,
\* each of them closed.
C5_EveryPositionReportedOnce ==
    (pc = "done" /\ ~Legacy) =>
        /\ Len(portfolio_history) = next_id - 1
        /\ IdSet(portfolio_history) = 1..(next_id - 1)
        /\ \A k \in 1..Len(portfolio_history) :
               portfolio_history[k].close_time # NoValue

\* C5 witness: a report over three positions, two closed by check and one at
\* end of data.
C5_Witness ==
    /\ pc = "done"
    /\ ~Legacy
    /\ Len(trade_history) = 2
    /\ Len(closed_trades) = 1
    /\ Len(portfolio_history) = 3

\* C6: a close_all_open_positions call that directly follows another one finds
\* nothing open, returns nothing and leaves trade history, balance and
\* notifications as they were.
SecondCloseAll ==
    /\ last_call = "close_all_open_positions"
    /\ last_call' = "close_all_open_positions"
    /\ calls' = calls + 1

C6_CloseAllIdempotent ==
    [][SecondCloseAll =>
        /\ open_positions = <<>>
        /\ open_positions' = <<>>
        /\ closed_trades' = <<>>
        /\ trade_history' = trade_history
        /\ balance' = balance
        /\ notified' = notified]_vars

\* C6 witness: two close_all calls in a row, after a position was opened and
\* closed with a gain or a loss by close_all (never by check).
C6_Witness ==
    /\ last_call = "close_all_open_positions"
    /\ prev_call = "close_all_open_positions"
    /\ next_id = 2
    /\ trade_history = <<>>
    /\ open_positions = <<>>
    /\ balance # InitialBalance

\* How often id occurs in a sequence of ids.
RECURSIVE Occurrences(_, _)
Occurrences(id, s) ==
    IF s = <<>> THEN 0
    ELSE (IF Head(s) = id THEN 1 ELSE 0) + Occurrences(id, Tail(s))

\* Positions closed at end of data and not yet handed over.
ClosedAtEndOfData == IF Legacy THEN <<>> ELSE closed_trades

StoredReason(p) ==
    IF Legacy
    THEN IF p.result = "Win" THEN "TakeProfit"
         ELSE IF p.result = "Loss" THEN "StopLoss" ELSE "None"
    ELSE IF "closed_by" \in DOMAIN p THEN p.closed_by ELSE "None"

StopTouched(bar, p) ==
    IF p.type = "BUY" THEN bar.low <= StopOf(p) ELSE bar.high >= StopOf(p)

TargetTouched(bar, p) ==
    IF p.type = "BUY" THEN bar.high >= TargetOf(p) ELSE bar.low <= TargetOf(p)

ClosedIds == IdSet(trade_history) \cup IdSet(ClosedAtEndOfData)

\* C9: a closed position is final.  No step changes or drops an entry of the
\* trade history, of what close_all returned or of the reported history; no
\* step closes a closed position again or has it in the open set.
C9_ClosedIsFinal ==
    [][/\ Len(trade_history') >= Len(trade_history)
       /\ SubSeq(trade_history', 1, Len(trade_history)) = trade_history
       /\ closed_trades # <<>> => closed_trades' = closed_trades
       /\ Len(portfolio_history') >= Len(portfolio_history)
       /\ SubSeq(portfolio_history', 1, Len(portfolio_history)) = portfolio_history
       /\ IdSet(NewlyInHistory) \cap ClosedIds = {}
       /\ IdSet(ClosedByCloseAll) \cap ClosedIds = {}
       /\ IdSet(OpenNow') \cap ClosedIds' = {}]_vars

\* C9 witness: a finished run whose first closed position was followed by
\* further checks, a further order that opened a position, and the final
\* close_all.
C9_Witness ==
    /\ pc = "done"
    /\ trade_history # <<>>
    /\ ExitTimeOf(trade_history[1]) < bar_index
    /\ next_id > 2
    /\ \/ Legacy
       \/ closed_trades # <<>>

\* C10: an order or signal handled while a position is open changes nothing:
\* the open position, the balance, the trade history, the notifications and the
\* next identity are the same after the step.
C10_OpenWhileOpenIsNoOp ==
    [][(OnBarStep /\ request' = "order" /\ OpenNow # <<>>) =>
          /\ open_positions' = open_positions
          /\ open_trade' = open_trade
          /\ balance' = balance
          /\ trade_history' = trade_history
          /\ notified' = notified
          /\ next_id' = next_id]_vars

\* C10 witness: the legacy ledger after a signal that came while the trade of
\* an earlier bar was still open.
C10_Witness ==
    /\ Legacy
    /\ pc = "check"
    /\ request = "order"
    /\ open_trade # NoTrade
    /\ open_trade.entry_time < bar_index

\* C11 as claimed: a position opened by the on_bar of bar i, from a signal
\* evaluated on bar i, has the open of bar i+1 as its entry price.  The core
\* ledger enters at bar i's close and the legacy ledger at the signal's own
\* entry price (an indicator value of bar i), both fixed before bar i+1 exists.
C11_EntryAtNextBarOpen ==
    [][CheckStep =>
        \A k \in 1..Len(OpenNow) :
            OpenNow[k].entry_time = bar_index =>
                OpenNow[k].entry_price = current_bar'.open]_vars

\* C11, what the core ledger does: the entry price of an open position is the
\* close of the bar it was opened on, whatever the next bar's open is.
C11_CoreEntersAtSignalBarClose ==
    [][(CheckStep /\ ~Legacy) =>
        \A k \in 1..Len(open_positions) :
            open_positions[k].entry_time = bar_index =>
                open_positions[k].entry_price = current_bar.close]_vars

\* C12: in every turn of a driver's loop the next bar is streamed and the open
\* positions are checked against it first (no order is placed in that step);
\* the strategy is evaluated and orders are placed after it, on the same bar,
\* closing nothing; only then the next bar is touched.  So a position closed at
\* its stop or target was closed on a bar later than the bar it was opened on.
C12_CheckBeforeEvaluate ==
    /\ [][/\ CheckStep =>
               /\ bar_index' = bar_index + 1
               /\ current_bar'.name = bar_index'
               /\ IdSet(OpenNow') \subseteq IdSet(OpenNow)
               /\ next_id' = next_id
          /\ OnBarStep =>
               /\ bar_index' = bar_index
               /\ current_bar' = current_bar
               /\ current_bar.name = bar_index
               /\ trade_history' = trade_history
               /\ balance' = balance
               /\ \A k \in 1..Len(OpenNow') :
                      OpenNow'[k].id \notin IdSet(OpenNow)
                          => OpenNow'[k].entry_time = bar_index
          /\ bar_index' # bar_index => CheckStep
          /\ pc = "on_bar" => pc' = "check"]_vars
    /\ [](\A k \in 1..Len(trade_history) :
             ExitTimeOf(trade_history[k]) > trade_history[k].entry_time)

\* C12 witness: a position was opened on a bar whose range holds its stop, the
\* bar is over and the position is still open: its first check is the next bar's.
C12_Witness ==
    /\ pc = "check"
    /\ OpenCount = 1
    /\ OpenNow[1].entry_time = bar_index
    /\ StopTouched(current_bar, OpenNow[1])

\* The step of a sizing run that hands an order to place_market_order.
OrderStep == order = NoOrder /\ order' # NoOrder

\* The stop distance of the order handed over in this step.
OrderStopDistance == Abs(current_bar.close - order'.sl)

\* C13: calculate_lot_size called with the stop at the entry price returns
\* 0 (a value, not an error), and an order whose stop is at the entry price
\* (the bar's close) opens no position and leaves the ledger as it was.
C13_ZeroDistanceOpensNothing ==
    /\ [](\A e \in Prices : CalculateLotSize(e, e) = 0)
    /\ [][(OrderStep /\ OrderStopDistance = 0) =>
             /\ open_positions' = open_positions
             /\ balance' = balance
             /\ trade_history' = trade_history
             /\ notified' = notified
             /\ next_id' = next_id
             /\ current_bar' = current_bar]_vars

\* C13 witness: an order with its stop at the bar's close was handed to a
\* ledger with nothing open, and nothing is open after it.
C13_Witness ==
    /\ order # NoOrder
    /\ order.sl = current_bar.close
    /\ open_positions = <<>>
    /\ next_id = 1

\* Python-free reference: the exact quotient num/den (den > 0) rounded to the
\* nearest integer, a half going up.
RoundHalfUp(num, den) == (2 * num + den) \div (2 * den)

\* C14 as claimed: for every non-zero stop distance the volume the sizer
\* returns is a multiple of the lot step within [min_lot, max_lot].  The core
\* RiskManager has no upper clamp.
C14_WithinLotRange ==
    \A sl_pips \in StopDistances :
        LET lot_size == LotSize(risk_per_trade_usd, sl_pips)
        IN  /\ lot_size % VolumeStep = 0
            /\ MinLot <= lot_size
            /\ lot_size <= VolumeMax

\* C14, what does hold: the core RiskManager returns whole hundredths of a lot,
\* at least the minimum; the live bots' calculate_lot_size, which clamps, stays
\* within [volume_min, volume_max] on a multiple of the step.
C14_AtLeastMinLotBotsClamped ==
    \A sl_pips \in StopDistances :
        /\ LotSize(risk_per_trade_usd, sl_pips) % VolumeStep = 0
        /\ LotSize(risk_per_trade_usd, sl_pips) >= MinLot
        /\ BotCalculateLotSize(risk_per_trade_usd, sl_pips) % VolumeStep = 0
        /\ BotCalculateLotSize(risk_per_trade_usd, sl_pips) >= VolumeMin
        /\ BotCalculateLotSize(risk_per_trade_usd, sl_pips) <= VolumeMax

\* C15: for a fixed non-zero stop distance the volume does not decrease when
\* the risk amount grows: a manager risking no more than this one never sizes
\* the same stop distance larger, and the position this ledger opens is at
\* least as large as any of those managers would have made it.
C15_MonotoneInRisk ==
    /\ \A r \in Risks : \A sl_pips \in StopDistances :
           r <= risk_per_trade_usd =>
               LotSize(r, sl_pips) <= LotSize(risk_per_trade_usd, sl_pips)
    /\ \A k \in 1..Len(open_positions) : \A r \in Risks :
           LET pos == open_positions[k]
           IN  r <= risk_per_trade_usd =>
                   LotSize(r, Abs(pos.entry_price - pos.sl_price)) <= pos.volume

\* C15 witness: a position is open whose volume is strictly larger than a
\* smaller risk amount gives for its stop distance.
C15_Witness ==
    /\ open_positions # <<>>
    /\ \E r \in Risks :
           /\ r < risk_per_trade_usd
           /\ LotSize(r, Abs(open_positions[1].entry_price
                              - open_positions[1].sl_price))
                  < open_positions[1].volume

\* C16: when the quantized volume is below the minimum lot and the stop
\* distance is not zero, calculate_lot_size returns exactly the minimum lot,
\* and the order is not rejected: the ledger opens the position at that volume.
C16_FlooredToMinLot ==
    /\ [](\A sl_pips \in StopDistances :
             Quantized(risk_per_trade_usd, sl_pips) < MinLot =>
                 LotSize(risk_per_trade_usd, sl_pips) = MinLot)
    /\ [][(/\ OrderStep
           /\ OrderStopDistance # 0
           /\ Quantized(risk_per_trade_usd, OrderStopDistance) < MinLot) =>
             /\ Len(open_positions') = 1
             /\ open_positions'[1].volume = MinLot
             /\ open_positions'[1].sl_price = order'.sl
             /\ open_positions'[1].type = order'.type]_vars

\* C16 witness: a position is open at the minimum lot although its quantized
\* volume is below it.
C16_Witness ==
    /\ Len(open_positions) = 1
    /\ open_positions[1].volume = MinLot
    /\ Quantized(risk_per_trade_usd,
                 Abs(open_positions[1].entry_price - open_positions[1].sl_price))
           < MinLot

\* C17 as claimed: before clamping, the volume is the quotient
\* risk / stop distance in pips / pip value per lot rounded to the nearest
\* hundredth with halves rounded up, and risk 50, 25 pips, pip value 10 give
\* 0.20 lots.  round() sends a half to the even neighbour: 1.25 USD over 1 pip
\* is 0.125 lots and comes out as 0.12.
C17_QuantizedHalfUp ==
    /\ \A sl_pips \in StopDistances :
           Quantized(risk_per_trade_usd, sl_pips)
               = RoundHalfUp(risk_per_trade_usd, sl_pips * PipValuePerLot)
    /\ Quantized(5000, 25) = 20

\* C17, what does hold: the quantized volume is a nearest hundredth (it is off
\* the exact quotient by at most half a hundredth), and scenario D gives 0.20.
C17_QuantizedNearest ==
    /\ \A sl_pips \in StopDistances :
           LET den == sl_pips * PipValuePerLot
               q == Quantized(risk_per_trade_usd, sl_pips)
           IN  2 * Abs(q * den - risk_per_trade_usd) <= den
    /\ Quantized(5000, 25) = 20
    /\ LotSize(5000, 25) = 20

\* The strategy is searching: no impulse confirmed, no position lock.
Searching == impulse_confirmed = NoImpulse /\ ~position_open

\* C18: the on_bar that confirms an impulse (a flag turns true) emits no
\* signal, places no order and opens nothing; a signal in a direction is
\* emitted only by an on_bar that found the flag of that direction already
\* set, and a flag is set by an on_bar only, so by the on_bar of an earlier bar.
C18_NoSignalOnConfirmingBar ==
    [][\A d \in OrderTypes :
          /\ (impulse_confirmed'[d] /\ ~impulse_confirmed[d]) =>
                 /\ OnBarStep
                 /\ signal' = NoSignal
                 /\ request' = "none"
                 /\ OpenNow' = OpenNow
                 /\ next_id' = next_id
                 /\ position_open' = position_open
          /\ (OnBarStep /\ signal'.type = d) => impulse_confirmed[d]]_vars

\* C18 witness: the bar just evaluated confirmed a long impulse; no signal
\* came of it and nothing is open.
C18_Witness ==
    /\ pc = "check"
    /\ evaluation = "confirmed"
    /\ impulse_confirmed["BUY"]
    /\ signal = NoSignal
    /\ OpenNow = <<>>

\* C19: a step that delivers the position-closed notification leaves the
\* strategy searching, both impulse flags false and the position lock cleared,
\* whatever the flags were and however the trade ended; the on_bar of that bar
\* is the next step and starts from there.
C19_ClosedNotificationResets ==
    [][Len(notified') > Len(notified) =>
          /\ impulse_confirmed' = NoImpulse
          /\ position_open' = FALSE
          /\ pc' = "on_bar"]_vars

\* C19 witness: a trade that had locked the strategy on a confirmed impulse
\* has just been closed at a profit and notified; the strategy is searching.
C19_Witness ==
    /\ strategy = "ema"
    /\ pc = "on_bar"
    /\ notified # <<>>
    /\ ExitTimeOf(trade_history[Len(trade_history)]) = bar_index
    /\ trade_history[Len(trade_history)].pnl > 0
    /\ Searching

\* C20 as claimed: an on_bar that detects the pullback but computes a stop on
\* the wrong side of the entry emits no signal and no order, and resets the
\* state machine: the impulse confirmation is cleared.  Neither strategy
\* touches the flags on that path.
C20_InvalidStopResets ==
    [][(OnBarStep /\ evaluation' = "invalid_stop") =>
          /\ signal' = NoSignal
          /\ request' = "none"
          /\ OpenNow' = OpenNow
          /\ impulse_confirmed' = NoImpulse]_vars

\* C20, what does hold: on that path nothing is emitted and nothing opened,
\* the strategy stays unlocked, and the impulse flags stay as they were.
C20_InvalidStopEmitsNothing ==
    [][(OnBarStep /\ evaluation' = "invalid_stop") =>
          /\ signal' = NoSignal
          /\ request' = "none"
          /\ OpenNow' = OpenNow
          /\ next_id' = next_id
          /\ position_open' = position_open
          /\ impulse_confirmed' = impulse_confirmed
          /\ impulse_confirmed # NoImpulse]_vars

\* The on_bar of this step ran the tests of the direction opposite to d while
\* the impulse of d was confirmed: with the flag of d set, the tests of d's own
\* direction end in a pullback or in no pullback, so a bar evaluated as
\* searching or as switching is one whose close is on the other side of the
\* slow EMA.
TrendAgainst(d) ==
    /\ OnBarStep
    /\ impulse_confirmed[d]
    /\ evaluation' \in {"searching", "switched"}

\* C21 as claimed: a bar whose trend filter points against the confirmed
\* impulse clears that confirmation.  The flag of a direction is cleared only
\* when the opposite impulse is confirmed; a flip of the trend alone leaves it.
C21_TrendFlipResets ==
    [][\A d \in OrderTypes : TrendAgainst(d) => ~impulse_confirmed'[d]]_vars

\* C21, its consequence as claimed: after a bar evaluated against the
\* confirmed direction, that direction does not signal on the next bar's
\* evaluation, the confirmation being gone.
C21_FlipBackNeedsFreshImpulse ==
    [][\A d \in OrderTypes :
          (OnBarStep /\ evaluation = "searching" /\ impulse_confirmed[d]) =>
              signal'.type # d]_vars

\* C21, what does hold: a bar against the confirmed direction clears the
\* confirmation exactly when it confirms the opposite impulse, and keeps every
\* flag otherwise.
C21_FlipKeepsFlagsUnlessOppositeImpulse ==
    [][\A d \in OrderTypes :
          TrendAgainst(d) =>
              IF evaluation' = "switched"
              THEN ~impulse_confirmed'[d]
              ELSE impulse_confirmed' = impulse_confirmed]_vars

\* C22: the on_bar that detects the impulse opposite to the confirmed one only
\* moves the confirmation to the new direction; it emits no signal, places no
\* order and opens nothing on that bar.
C22_OppositeImpulseOnlySwitches ==
    [][\A d \in OrderTypes :
          (TrendAgainst(d) /\ evaluation' = "switched") =>
              /\ impulse_confirmed'[Opposite(d)]
              /\ ~impulse_confirmed'[d]
              /\ signal' = NoSignal
              /\ request' = "none"
              /\ OpenNow' = OpenNow
              /\ next_id' = next_id
              /\ position_open' = position_open]_vars

\* C22 witness: the bar just evaluated took the confirmation from the long
\* side to the short side; nothing was signalled and nothing is open.
C22_Witness ==
    /\ pc = "check"
    /\ evaluation = "switched"
    /\ impulse_confirmed = [BUY |-> FALSE, SELL |-> TRUE]
    /\ signal = NoSignal
    /\ OpenNow = <<>>

\* C23: the strategy holds its position lock whenever a position is open, and
\* while it holds the lock on_bar returns no signal on every bar, asks nothing
\* of the ledger and leaves the impulse flags and the lock as they are.
C23_LockedEmitsNothing ==
    /\ [](OpenNow # <<>> => position_open)
    /\ [][(OnBarStep /\ strategy = "ema" /\ position_open /\ evaluation' # "skipped") =>
          /\ evaluation' = "locked"
          /\ signal' = NoSignal
          /\ request' = "none"
          /\ UNCHANGED lockVars
          /\ OpenNow' = OpenNow
          /\ next_id' = next_id]_vars

\* C23 witness: a bar was evaluated while the position opened on a confirmed
\* impulse was still open.
C23_Witness ==
    /\ pc = "check"
    /\ evaluation = "locked"
    /\ position_open
    /\ impulse_confirmed # NoImpulse
    /\ OpenNow # <<>>

\* C24: on a series none of whose bars shows an impulse, a flat series among
\* them, the run emits no signal at any bar: no impulse is ever confirmed,
\* nothing is asked of the ledger, no position is opened, and the trade
\* history and what the final close-out returns are empty at the end.
C24_NoImpulseNoSignal ==
    quiet =>
        /\ impulse_confirmed = NoImpulse
        /\ ~position_open
        /\ signal = NoSignal
        /\ request = "none"
        /\ OpenNow = <<>>
        /\ next_id = 1
        /\ trade_history = <<>>
        /\ closed_trades = <<>>
        /\ portfolio_history = <<>>

\* C24 witness: a run over such a series is over; its last bar was evaluated
\* in a trend, found no impulse, and the history is empty.
C24_Witness ==
    /\ quiet
    /\ pc = "done"
    /\ bar_index = MaxEmaBars
    /\ evaluation = "searching"
    /\ trade_history = <<>>

\* The entry price of a signal on the bar being evaluated: the core strategy
\* enters at the bar's close, the legacy strategy at the fast EMA.
EntryPrice(ind) == IF Legacy THEN ind.EMA_fast ELSE current_bar.close

\* on_bar is about to evaluate the bar: the window is full and the strategy
\* is not locked.
Evaluating ==
    /\ strategy = "ema"
    /\ pc = "on_bar"
    /\ ~position_open
    /\ IF Legacy THEN bar_index - 1 >= NBarsForEntry ELSE bar_index >= NBarsForEntry

\* The bar being evaluated is a pullback bar of a long setup, for the
\* indicator values ind: uptrend, long impulse confirmed on an earlier bar, the
\* row before above the fast EMA and this bar touching it.
LongPullback(ind) ==
    /\ ind.EMA_slow < current_bar.close
    /\ impulse_confirmed["BUY"]
    /\ prev_bar.low > ind.prev_EMA_fast
    /\ current_bar.low <= ind.EMA_fast

\* The long setup completes: the stop computed lies below the entry.
LongSetupCompletes(ind) ==
    /\ LongPullback(ind)
    /\ 10 * EntryPrice(ind) > 10 * ind.EMA_slow - SlAtrMultiplierTenths * ind.ATR

\* The levels of a long signal for the indicator values ind.
LongLevels(sig, ind) ==
    /\ sig.type = "BUY"
    /\ sig.entry_price = EntryPrice(ind)
    /\ 10 * sig.sl = 10 * ind.EMA_slow - SlAtrMultiplierTenths * ind.ATR
    /\ sig.tp = sig.entry_price + RiskToReward * (sig.entry_price - sig.sl)

\* C25 as claimed: in an uptrend, a confirmed long impulse followed by a
\* pullback bar that touches the fast EMA yields a Long signal with
\* stop_loss = EMA_slow - sl_atr_multiplier x ATR and
\* take_profit = entry + risk_to_reward x (entry - stop), whatever the
\* indicator values.  The legacy strategy enters at the fast EMA, which may lie
\* at or below that stop, and then returns nothing.
C25_PullbackYieldsLongSignal ==
    Evaluating =>
        \A ind \in Indicators(current_bar) :
            LongPullback(ind) =>
                /\ SignalGeneratorCheck(WindowRows, current_bar, prev_bar,
                                        ind).signal_type = "BUY"
                /\ LongLevels(CalculateOrder("BUY", EntryPrice(ind), ind), ind)

\* C25 amended: such a pullback bar yields the Long signal with these levels
\* when the stop computed lies below the entry; every Long signal comes of such
\* a bar and has these levels; and the signal is the only one of its setup: it
\* locks the strategy, and the lock is released only together with the
\* impulse flags.
C25_OneLongSignalPerSetup ==
    /\ [](Evaluating =>
            \A ind \in Indicators(current_bar) :
                LongSetupCompletes(ind) =>
                    /\ SignalGeneratorCheck(WindowRows, current_bar, prev_bar,
                                            ind).signal_type = "BUY"
                    /\ LongLevels(CalculateOrder("BUY", EntryPrice(ind), ind), ind))
    /\ [][/\ (OnBarStep /\ signal'.type = "BUY") =>
                 (/\ Evaluating
                  /\ \E ind \in Indicators(current_bar) :
                         LongSetupCompletes(ind) /\ LongLevels(signal', ind)
                  /\ position_open'
                  /\ request' = "order")
          /\ (position_open /\ ~position_open') => (impulse_confirmed' = NoImpulse)
          /\ (OnBarStep /\ position_open) => (signal' = NoSignal)]_vars

\* C25 witness: the legacy strategy has just returned a Long signal; the trade
\* is open at the signal's levels and the strategy is locked.
C25_Witness ==
    /\ Legacy
    /\ pc = "check"
    /\ evaluation = "signal"
    /\ signal.type = "BUY"
    /\ position_open
    /\ open_trade # NoTrade
    /\ open_trade.sl = signal.sl
    /\ open_trade.tp = signal.tp
    /\ signal.entry_price - signal.sl > 1

\* C26 as claimed: the driver skips the strategy on exactly the bars for which
\* fewer than N_BARS_FOR_ENTRY bars are available (bar_index counts the bars
\* streamed so far, the current one included), and a skipped bar emits
\* nothing.  The legacy loop also skips the first bar whose window is full.
C26_EvaluatesFromFirstFullWindow ==
    [][(OnBarStep /\ strategy = "ema") =>
          /\ (evaluation' = "skipped") <=> (bar_index < NBarsForEntry)
          /\ (evaluation' = "skipped") =>
                 (/\ request' = "none"
                  /\ OpenNow' = OpenNow
                  /\ UNCHANGED <<lockVars, signal>>)]_vars

\* C26, what does hold: no bar with a short window is evaluated, a skipped
\* bar emits nothing and changes nothing, and evaluation runs on every bar
\* from the first full window on in the core loop and from the bar after it
\* in the legacy loop.
C26_NoEvaluationOnShortWindow ==
    [][(OnBarStep /\ strategy = "ema") =>
          /\ (evaluation' = "skipped") <=>
                 (bar_index < NBarsForEntry + (IF Legacy THEN 1 ELSE 0))
          /\ (evaluation' = "skipped") =>
                 (/\ request' = "none"
                  /\ OpenNow' = OpenNow
                  /\ UNCHANGED <<lockVars, signal>>)]_vars

\* A configuration the specification calls an error.
BadConfiguration(c) == c.risk_to_reward <= 0 \/ c.pip_size = 0

\* C27 as claimed: with risk_to_reward <= 0 or pip_size = 0 the construction
\* fails, so that no simulation step runs with such a configuration.
\* EmaOrderCalculator and RiskManager store what they are given.
C27_BadConfigurationFailsAtConstruction ==
    (engine = "config" /\ BadConfiguration(config)) =>
        /\ pc \in {"new", "error"}
        /\ bar_index = 0

\* C27, what does hold: BotStrategy alone fails at construction.  A zero
\* pip_size fails only when the first order is sized, after a bar was
\* processed, and a non-positive risk_to_reward never fails: it puts the
\* target of the order at the entry or on the stop's side of it.
C27_OnlyBotStrategyValidates ==
    (engine = "config" /\ BadConfiguration(config) /\ pc # "new") =>
        /\ (config.class = "BotStrategy") => (pc = "error" /\ bar_index = 0)
        /\ (config.class = "RiskManager") =>
               (pc \in {"ready", "error"} /\ (pc = "error" => bar_index = 1))
        /\ (config.class = "EmaOrderCalculator") =>
               /\ pc \in {"ready", "done"}
               /\ (signal.type = "BUY") =>
                      (signal.tp <= signal.entry_price /\ OpenNow # <<>>)
               /\ (signal.type = "SELL") =>
                      (signal.tp >= signal.entry_price /\ OpenNow # <<>>)

\* The ledger's records of closed positions: the history, and in the core
\* engine what close_all_open_positions returned.
ClosedCount == Len(trade_history) + Len(closed_trades)

\* C28: the balance changes only in a step that closes a position, one that
\* was open and is then in the records of closed positions; an open call,
\* accepted or rejected, and a strategy evaluation leave the balance and the
\* trade history unchanged and the open position too, apart from the position
\* newly accepted on an empty ledger; a check on a bar that hits neither stop
\* nor target leaves all three unchanged.
C28_BalanceChangesOnlyAtClose ==
    [][/\ (balance' # balance) =>
              (/\ OpenNow # <<>>
               /\ OpenNow' = <<>>
               /\ ClosedCount' = ClosedCount + 1)
       /\ OnBarStep =>
              (/\ balance' = balance
               /\ trade_history' = trade_history
               /\ closed_trades' = closed_trades
               /\ \/ OpenNow' = OpenNow /\ next_id' = next_id
                  \/ /\ request' = "order"
                     /\ OpenNow = <<>>
                     /\ Len(OpenNow') = 1
                     /\ OpenNow'[1].id = next_id
                     /\ next_id' = next_id + 1)
       /\ (CheckStep /\ ClosedCount' = ClosedCount) =>
              (/\ balance' = balance
               /\ OpenNow' = OpenNow
               /\ trade_history' = trade_history)]_vars

\* C28 witness: an order has just been accepted on a bar that an earlier check
\* found to hit nothing; the position is open, the balance is the initial one
\* and the history is empty.
C28_Witness ==
    /\ strategy = "any"
    /\ pc = "check"
    /\ request = "order"
    /\ bar_index >= 2
    /\ OpenNow # <<>>
    /\ OpenNow[1].entry_time = bar_index
    /\ balance = StartBalance
    /\ trade_history = <<>>

\* The trades of the reported history that lost money, and the others.
LosingTrades == SelectSeq(AllClosed, LAMBDA t : t.pnl < 0)
WinningTrades == SelectSeq(AllClosed, LAMBDA t : t.pnl >= 0)

\* The stop of a trade lies on the losing side of its entry and the target on
\* the winning side.
StopOnLosingSide(t) ==
    IF t.type = "BUY"
    THEN StopOf(t) < t.entry_price /\ t.entry_price < TargetOf(t)
    ELSE TargetOf(t) < t.entry_price /\ t.entry_price < StopOf(t)

\* The legacy reporter counts by the result the ledger stored, Win for a
\* target hit and Loss for a stop hit, which is the sign of the pnl for trades
\* whose stop is on the losing side.
ReportedByPnl ==
    Legacy => \A k \in 1..Len(trade_history) : StopOnLosingSide(trade_history[k])

\* C29: the report of a finished run, over the closed-trade history it was
\* made from (in the legacy ledger: of trades with the stop on the losing
\* side).  Empty history: the 'no trades' text, and neither a win rate nor a
\* profit factor is computed.  Otherwise wins + losses = total, the win rate
\* is wins / total (as a percentage), and the profit factor is the sum of the
\* winning pnl over the absolute sum of the losing pnl, infinite exactly when
\* no trade lost.
C29_ReportAggregates ==
    (pc = "done" /\ ReportedByPnl) =>
        IF AllClosed = <<>>
        THEN /\ report.text = "No trades were executed."
             /\ DOMAIN report \cap
                    {"win_rate", "profit_factor", "wins", "losses"} = {}
        ELSE /\ report.text = "Results"
             /\ report.total_trades = Len(AllClosed)
             /\ report.wins + report.losses = report.total_trades
             /\ report.wins = Len(WinningTrades)
             /\ report.win_rate.num = 100 * report.wins
             /\ report.win_rate.den = report.total_trades
             /\ report.profit_factor.inf <=> (LosingTrades = <<>>)
             /\ ~report.profit_factor.inf =>
                    /\ report.profit_factor.num = SumPnl(WinningTrades)
                    /\ report.profit_factor.den = Abs(SumPnl(LosingTrades))
                    /\ report.profit_factor.den > 0

\* C29 witness: a finished run whose history holds a winning and a losing
\* trade, reported with a finite profit factor.
C29_Witness ==
    /\ Legacy
    /\ pc = "done"
    /\ ReportedByPnl
    /\ report.text = "Results"
    /\ report.wins >= 1
    /\ report.losses >= 1
    /\ ~report.profit_factor.inf
    /\ report.profit_factor.num > 0

\* C30: with a positive risk-to-reward ratio, every signal the EMA strategy
\* emits has its stop strictly on the losing side of the entry and its target
\* strictly on the winning side: sl < entry < tp for a Long, tp < entry < sl
\* for a Short; and the position or trade opened on it carries these levels.
C30_SignalLevelsStraddleEntry ==
    /\ (risk_to_reward > 0 /\ signal # NoSignal) =>
           IF signal.type = "BUY"
           THEN signal.sl < signal.entry_price /\ signal.entry_price < signal.tp
           ELSE signal.tp < signal.entry_price /\ signal.entry_price < signal.sl
    /\ \A k \in 1..Len(OpenNow) : StopOnLosingSide(OpenNow[k])

\* C30 witness: the strategy has just emitted a Short signal and the position
\* is open at its levels.
C30_Witness ==
    /\ evaluation = "signal"
    /\ signal.type = "SELL"
    /\ risk_to_reward > 0
    /\ OpenNow # <<>>
    /\ StopOf(OpenNow[1]) = signal.sl
    /\ TargetOf(OpenNow[1]) = signal.tp
    /\ signal.tp < signal.entry_price

\* The driver is between two bars of its loop.
AtBarBoundary == engine \in {"core", "legacy"} /\ pc = "check"

C31_OpenImpliesLocked ==
    AtBarBoundary =>
        /\ OpenNow # <<>> => position_open
        /\ Legacy => (position_open <=> OpenNow # <<>>)

\* C31: the core strategy asked for an order, the ledger skipped it, and the
\* strategy is locked with nothing open.
C31_LockedAfterSkippedOrder ==
    /\ AtBarBoundary
    /\ ~Legacy
    /\ evaluation = "signal"
    /\ position_open
    /\ OpenNow = <<>>
    /\ trade_history = <<>>

\* The step is an on_bar of BotStrategy that found a setup pending.
ManagesPending == bot.class = "BotStrategy" /\ bot'.bars # bot.bars /\
                  bot.pending_setup # NoSetup

\* The bar touches the stop level of the setup / its entry price.
TouchesStop(pending, bar) ==
    IF pending.direction = "BUY" THEN bar.low <= pending.sl ELSE bar.high >= pending.sl
TouchesEntry(pending, bar) ==
    IF pending.direction = "BUY" THEN bar.low <= pending.entry_price
    ELSE bar.high >= pending.entry_price

\* C32: a bar that touches the stop level of the pending setup cancels it and
\* places no order, also when it touches the entry price; an order is placed
\* only on a bar that touches the entry and not the stop, it is the setup's
\* order, and the setup is cleared with it, so that no setup places two orders.
C32_StopTouchCancelsBeforeEntry ==
    /\ [](\A i, j \in 1..Len(bot.orders) :
            bot.orders[i].setup = bot.orders[j].setup => i = j)
    /\ [][/\ (ManagesPending /\ TouchesStop(bot.pending_setup, bot'.current_bar)) =>
                (bot'.pending_setup = NoSetup /\ bot'.orders = bot.orders)
          /\ (bot.class = "BotStrategy" /\ bot'.orders # bot.orders) =>
                (/\ ManagesPending
                 /\ TouchesEntry(bot.pending_setup, bot'.current_bar)
                 /\ ~TouchesStop(bot.pending_setup, bot'.current_bar)
                 /\ Len(bot'.orders) = Len(bot.orders) + 1
                 /\ bot'.orders[Len(bot'.orders)].order.direction =
                        bot.pending_setup.direction
                 /\ bot'.orders[Len(bot'.orders)].order.sl = bot.pending_setup.sl
                 /\ bot'.orders[Len(bot'.orders)].order.tp = bot.pending_setup.tp
                 /\ bot'.pending_setup = NoSetup)
          /\ (ManagesPending /\ TouchesEntry(bot.pending_setup, bot'.current_bar)
                /\ ~TouchesStop(bot.pending_setup, bot'.current_bar)) =>
                Len(bot'.orders) = Len(bot.orders) + 1]_vars

\* C32 witness: a bar touched the stop (and so the entry) of a pending setup,
\* which was cancelled without an order, after an earlier setup had placed one.
C32_Witness ==
    /\ bot.class = "BotStrategy"
    /\ bot.step = "invalidated"
    /\ bot.pending_setup = NoSetup
    /\ bot.setups = 2
    /\ Len(bot.orders) = 1
    /\ bot.orders[1].setup = 1

\* The eight-state bot has run an iteration.
KeltnerStep == bot.class = "KeltnerChannelBot" /\ bot'.iterations # bot.iterations

\* The log holds, in this order, an impulse detection on a new candle out of
\* SEARCHING, a pullback touch and a stability confirmation, all in direction d.
Prepared(log, d) ==
    \E i, j, k \in 1..Len(log) :
        /\ i < j /\ j < k
        /\ log[i].why = "impulse" /\ log[i].new_candle
        /\ log[i].from = "SEARCHING" /\ log[i].to = ImpulseDetected(d)
        /\ log[j].why = "touch" /\ log[j].to = PullbackTouched(d)
        /\ log[k].why = "stable" /\ log[k].to = WaitingEntry(d)

\* C33: in the eight-state bot every order is sent on a new candle that
\* confirms the entry, out of the WAITING_ENTRY state of its direction, after
\* an impulse detection on a new candle, a pullback touch and a stability
\* confirmation in that order and direction, with no return to SEARCHING and no
\* state of the other direction since the impulse; POSITION_OPEN is entered
\* only from a WAITING_ENTRY state and only with an order that was accepted.
C33_OrderFollowsTheFourSteps ==
    [][/\ (KeltnerStep /\ bot'.orders # bot.orders) =>
            LET sent == bot'.orders[Len(bot'.orders)]
            IN  /\ Len(bot'.orders) = Len(bot.orders) + 1
                /\ bot'.new_candle
                /\ bot.state = WaitingEntry(sent.direction)
                /\ bot'.last.close = IF sent.direction = "BUY" THEN "above_middle"
                                      ELSE "below_middle"
                /\ Prepared(bot.log, sent.direction)
                /\ \A n \in 1..Len(bot.log) :
                       /\ bot.log[n].to # "SEARCHING"
                       /\ Direction(bot.log[n].to) = sent.direction
       /\ (KeltnerStep /\ bot'.state = "POSITION_OPEN"
               /\ bot.state # "POSITION_OPEN") =>
            /\ bot.state \in {"WAITING_ENTRY_BUY", "WAITING_ENTRY_SELL"}
            /\ Len(bot'.orders) = Len(bot.orders) + 1
            /\ bot'.orders[Len(bot'.orders)].result = "DONE"
            /\ bot'.position_ticket # NoValue]_vars

\* C33 witness: a Short order was accepted after a touch was lost and found
\* again, and the bot is in POSITION_OPEN.
C33_Witness ==
    /\ bot.class = "KeltnerChannelBot"
    /\ bot.state = "POSITION_OPEN"
    /\ Len(bot.orders) = 1
    /\ bot.orders[1].direction = "SELL"
    /\ bot.orders[1].result = "DONE"
    /\ \E n \in 1..Len(bot.log) : bot.log[n].why = "lost_touch"

\* C34: after every run_iteration of the eight-state bot pullback_touch_time
\* is set exactly in the PULLBACK_TOUCHED and WAITING_ENTRY states.
C34_TouchTimeSetIffTouchedOrWaiting ==
    bot.class = "KeltnerChannelBot" =>
        (bot.pullback_touch_time # NoValue <=>
            bot.state \in {"PULLBACK_TOUCHED_BUY", "PULLBACK_TOUCHED_SELL",
                           "WAITING_ENTRY_BUY", "WAITING_ENTRY_SELL"})

\* C34 witness: the bot lost a touch, found it again and waits for the entry
\* with the time of the touch set.
C34_Witness ==
    /\ bot.class = "KeltnerChannelBot"
    /\ bot.state = "WAITING_ENTRY_BUY"
    /\ bot.pullback_touch_time # NoValue
    /\ \E n \in 1..Len(bot.log) : bot.log[n].why = "lost_touch"

\* The closed candle seen is beyond the band against direction d / beyond the
\* band of the impulse of direction d.
SeenAgainst(seen, d) ==
    IF d = "BUY" THEN seen.low = "below_lower" ELSE seen.high = "above_upper"
SeenImpulse(seen, d) ==
    IF d = "BUY" THEN seen.high = "above_upper" ELSE seen.low = "below_lower"

\* C35: in a WAITING_ENTRY state a new candle beyond the band against the
\* setup sends the bot to SEARCHING, and otherwise one beyond the band of the
\* impulse sends it back to IMPULSE_DETECTED of its direction, in both cases
\* without an order and wherever the candle closed.
C35_InvalidationBeforeEntry ==
    [][\A d \in OrderTypes :
         (KeltnerStep /\ bot.state = WaitingEntry(d) /\ bot'.new_candle) =>
            /\ SeenAgainst(bot'.last, d) =>
                  (bot'.state = "SEARCHING" /\ bot'.orders = bot.orders
                     /\ bot'.opened = "none")
            /\ (~SeenAgainst(bot'.last, d) /\ SeenImpulse(bot'.last, d)) =>
                  (bot'.state = ImpulseDetected(d) /\ bot'.orders = bot.orders
                     /\ bot'.opened = "none")]_vars

\* C35 witness: a candle above the upper band that closed above the middle
\* line has sent the bot back from WAITING_ENTRY_BUY to IMPULSE_DETECTED_BUY.
C35_Witness ==
    /\ bot.class = "KeltnerChannelBot"
    /\ bot.state = "IMPULSE_DETECTED_BUY"
    /\ bot.new_candle
    /\ bot.last.high = "above_upper"
    /\ bot.last.close = "above_middle"
    /\ bot.log # <<>>
    /\ bot.log[Len(bot.log)].why = "reset_to_impulse"
    /\ bot.log[Len(bot.log)].from = "WAITING_ENTRY_BUY"
    /\ bot.orders = <<>>

\* open_position has returned False in the step: no tick, a lot below the
\* minimum, or an order the broker did not accept.
OpenFailed(b) == b.opened \in {"no_tick", "lot_below_min", "send_none", "rejected"}

\* C38: when open_position fails the bot drops the setup, going to SEARCHING
\* with the touch time and its log of the setup cleared, and it sends no other
\* order for that setup: no two orders follow the same impulse detection, and
\* every order follows one.
C38_FailedOpenDropsTheSetup ==
    bot.class = "KeltnerChannelBot" =>
        /\ OpenFailed(bot) =>
              (bot.state = "SEARCHING" /\ bot.pullback_touch_time = NoValue
                 /\ bot.log = <<>>)
        /\ \A i, j \in 1..Len(bot.orders) :
              /\ bot.orders[i].impulse >= 1
              /\ bot.orders[i].impulse = bot.orders[j].impulse => i = j

\* C38 witness: the broker rejected the order of the first setup, and after a
\* second impulse detection the bot has sent the order of the second.
C38_Witness ==
    /\ bot.class = "KeltnerChannelBot"
    /\ Len(bot.orders) = 2
    /\ bot.orders[1].result = "REJECTED"
    /\ bot.orders[1].impulse = 1
    /\ bot.orders[2].impulse = 2
    /\ bot.impulses = 2


C37_OrderKeepsMinimumDistance ==
    bot.class = "LiveKeltnerBot" =>
        \A i \in 1..Len(bot.orders) :
            bot.orders[i].candle - bot.orders[i].established >= MinPullbackDistance


\* C39: handle_searching_state moves to SCALING_IN exactly when all
\* NUM_SCALE_IN_ORDERS limit orders were accepted; when fewer were accepted a
\* cancel is issued for every order placed, active_setup stays empty and the
\* state stays SEARCHING; in SEARCHING active_setup is always empty.
C39_ScalingInIffAllOrdersPlaced ==
    /\ [](bot.class = "ChochBot" =>
            (bot.state = "SEARCHING" => bot.active_setup = NoActiveSetup))
    /\ [][(bot.class = "ChochBot" /\ bot.state = "SEARCHING"
             /\ bot'.handled = "searching") =>
             /\ bot'.state = "SCALING_IN" <=>
                   Cardinality(bot'.placed) = NumScaleInOrders
             /\ Cardinality(bot'.placed) < NumScaleInOrders =>
                   /\ bot'.placed \subseteq bot'.cancels
                   /\ bot'.active_setup = NoActiveSetup
                   /\ bot'.state = "SEARCHING"]_vars

\* The tickets of the active setup that are still pending at the terminal
\* when the handler of the next state runs.
StillPending == {t \in bot'.listed :
                    \E k \in DOMAIN bot.active_setup.pending_tickets :
                        bot.active_setup.pending_tickets[k] = t}

\* C40: on a new candle in SCALING_IN the bot returns to SEARCHING with
\* active_setup cleared if the price is deeper than
\* PULLBACK_DEPTH_ATR_MULTIPLIER x ATR beyond the signal price, after a cancel
\* for every pending order of the setup's magic number, or if none of the
\* setup's tickets is still pending; otherwise it stays in SCALING_IN and
\* pending_tickets loses tickets or stays as it is.
C40_ScalingInEndsOnDeepPullbackOrNoPending ==
    [][(bot.class = "ChochBot" /\ bot.state = "SCALING_IN") =>
         IF bot'.handled = "scaling"
         THEN IF bot'.deep \/ StillPending = {}
              THEN /\ bot'.state = "SEARCHING"
                   /\ bot'.active_setup = NoActiveSetup
                   /\ bot'.deep => bot'.listed \subseteq bot'.cancels
              ELSE /\ bot'.state = "SCALING_IN"
                   /\ \A k \in DOMAIN bot'.active_setup.pending_tickets :
                         \E n \in DOMAIN bot.active_setup.pending_tickets :
                             bot.active_setup.pending_tickets[n] =
                                 bot'.active_setup.pending_tickets[k]
         ELSE bot'.state = "SCALING_IN" /\ bot'.active_setup = bot.active_setup]_vars

====
